---------------------------- MODULE Spec2Model ----------------------------
(***************************************************************************)
(* Altilium-db: an in-memory key-value server speaking RESP over TCP.      *)
(*                                                                         *)
(* The model covers the wire codec (resp.rs), the connection loop and the  *)
(* command dispatch (main.rs), the store with its single consumer task and *)
(* the expiration sweep (store.rs), and the snapshot load at startup       *)
(* (persistence.rs).                                                       *)
(*                                                                         *)
(* Bytes are one-character strings, byte strings and Rust Strings are      *)
(* sequences of them.  HashMaps are functions with a finite domain.        *)
(***************************************************************************)
EXTENDS Integers, Sequences, FiniteSets, TLC

---------------------------------------------------------------------------
(* Bytes and text *)

CR == "\r"
LF == "\n"
CRLF == <<CR, LF>>

\* A byte that is not valid UTF-8 on its own (String::from_utf8 rejects it).
BadByte == "0xFF"

DigitChars == <<"0", "1", "2", "3", "4", "5", "6", "7", "8", "9">>

Digits == {"0", "1", "2", "3", "4", "5", "6", "7", "8", "9"}

IsDigit(b) == b \in Digits

DigitVal(b) == (CHOOSE d \in 1..10 : DigitChars[d] = b) - 1

RECURSIVE NatToBytes(_)
NatToBytes(n) ==
    IF n < 10 THEN <<DigitChars[n + 1]>>
    ELSE Append(NatToBytes(n \div 10), DigitChars[(n % 10) + 1])

\* format!("{}", i) for an integer
IntToBytes(i) == IF i < 0 THEN <<"-">> \o NatToBytes(-i) ELSE NatToBytes(i)

LowerChars ==
    <<"a", "b", "c", "d", "e", "f", "g", "h", "i", "j", "k", "l", "m",
      "n", "o", "p", "q", "r", "s", "t", "u", "v", "w", "x", "y", "z">>

UpperChars ==
    <<"A", "B", "C", "D", "E", "F", "G", "H", "I", "J", "K", "L", "M",
      "N", "O", "P", "Q", "R", "S", "T", "U", "V", "W", "X", "Y", "Z">>

\* char::to_uppercase on ASCII
UpperOf(b) ==
    IF \E i \in 1..26 : LowerChars[i] = b
    THEN UpperChars[CHOOSE i \in 1..26 : LowerChars[i] = b]
    ELSE b

to_uppercase(s) == [i \in 1..Len(s) |-> UpperOf(s[i])]

\* Length of the longest prefix of input whose bytes are all in set (when
\* inside) or all outside set (when not inside)
RECURSIVE SpanLen(_, _, _)
SpanLen(input, set, inside) ==
    IF input = <<>> \/ ((Head(input) \in set) # inside) THEN 0
    ELSE 1 + SpanLen(Tail(input), set, inside)

Drop(input, n) == SubSeq(input, n + 1, Len(input))
Take(input, n) == SubSeq(input, 1, n)

---------------------------------------------------------------------------
(* resp.rs: RespValue *)

SimpleString(s) == [t |-> "SimpleString", s |-> s]
Error(s)        == [t |-> "Error", s |-> s]
Integer(i)      == [t |-> "Integer", i |-> i]
BulkString(b)   == [t |-> "BulkString", b |-> b]
Array(a)        == [t |-> "Array", a |-> a]
Null            == [t |-> "Null"]

\* RespValue::to_string: Result<String, FromUtf8Error>
to_string(v) ==
    CASE v.t = "BulkString" ->
            IF \E i \in 1..Len(v.b) : v.b[i] = BadByte
            THEN [ok |-> FALSE] ELSE [ok |-> TRUE, s |-> v.b]
      [] v.t = "SimpleString" -> [ok |-> TRUE, s |-> v.s]
      [] OTHER -> [ok |-> FALSE]

\* args[i].clone().to_string().unwrap_or_default()
to_string_or_default(v) == IF to_string(v).ok THEN to_string(v).s ELSE <<>>

---------------------------------------------------------------------------
(* resp.rs: the nom parsers.  IResult is Ok((rest, value)) or Err; the     *)
(* parsers imported are the `complete` ones, whose only error is           *)
(* Err::Error: they never answer Err::Incomplete.                          *)

POk(rest, value) == [res |-> "Ok", rest |-> rest, value |-> value]
PError == [res |-> "Error"]
PIncomplete == [res |-> "Incomplete"]

\* nom::bytes::complete::tag of a one-byte tag
tag(b, input) ==
    IF input # <<>> /\ Head(input) = b THEN POk(Tail(input), <<b>>) ELSE PError

\* nom::character::complete::crlf
crlf(input) ==
    IF Len(input) >= 2 /\ input[1] = CR /\ input[2] = LF
    THEN POk(Drop(input, 2), CRLF) ELSE PError

\* nom::bytes::complete::is_not("\r\n"): the longest prefix without CR or LF,
\* an error when that prefix is empty
is_not_crlf(input) ==
    LET n == SpanLen(input, {CR, LF}, FALSE)
    IN  IF n = 0 THEN PError ELSE POk(Drop(input, n), Take(input, n))

\* nom::bytes::complete::take(n)
take(n, input) ==
    IF Len(input) >= n THEN POk(Drop(input, n), Take(input, n)) ELSE PError

RECURSIVE DigitsValue(_)
DigitsValue(ds) ==
    IF ds = <<>> THEN 0
    ELSE 10 * DigitsValue(Take(ds, Len(ds) - 1)) + DigitVal(ds[Len(ds)])

\* nom::character::complete::i64: an optional sign, then at least one digit
nom_i64(input) ==
    LET signed == input # <<>> /\ Head(input) \in {"-", "+"}
        neg    == input # <<>> /\ Head(input) = "-"
        i      == IF signed THEN Tail(input) ELSE input
        n      == SpanLen(i, Digits, TRUE)
    IN  IF n = 0 THEN PError
        ELSE POk(Drop(i, n),
                 IF neg THEN 0 - DigitsValue(Take(i, n)) ELSE DigitsValue(Take(i, n)))

\* preceded(tag(b), terminated(is_not("\r\n"), crlf))
line_of(b, input) ==
    LET r1 == tag(b, input)
        r2 == is_not_crlf(r1.rest)
        r3 == crlf(r2.rest)
    IN  IF r1.res # "Ok" THEN r1
        ELSE IF r2.res # "Ok" THEN r2
        ELSE IF r3.res # "Ok" THEN r3
        ELSE POk(r3.rest, r2.value)

\* preceded(tag(b), terminated(i64, crlf))
number_of(b, input) ==
    LET r1 == tag(b, input)
        r2 == nom_i64(r1.rest)
        r3 == crlf(r2.rest)
    IN  IF r1.res # "Ok" THEN r1
        ELSE IF r2.res # "Ok" THEN r2
        ELSE IF r3.res # "Ok" THEN r3
        ELSE POk(r3.rest, r2.value)

parse_simple_string(input) ==
    LET r == line_of("+", input)
    IN  IF r.res # "Ok" THEN r ELSE POk(r.rest, SimpleString(r.value))

parse_error(input) ==
    LET r == line_of("-", input)
    IN  IF r.res # "Ok" THEN r ELSE POk(r.rest, Error(r.value))

parse_integer(input) ==
    LET r == number_of(":", input)
    IN  IF r.res # "Ok" THEN r ELSE POk(r.rest, Integer(r.value))

\* `len as usize` of a negative length other than -1 is a huge number: take
\* and count then run out of input
parse_bulk_string(input) ==
    LET r  == number_of("$", input)
        r2 == take(r.value, r.rest)
        r3 == crlf(r2.rest)
    IN  IF r.res # "Ok" THEN r
        ELSE IF r.value = -1 THEN POk(r.rest, Null)
        ELSE IF r.value < 0 THEN PError
        ELSE IF r2.res # "Ok" THEN r2
        ELSE IF r3.res # "Ok" THEN r3
        ELSE POk(r3.rest, BulkString(r2.value))

RECURSIVE parse_resp(_)
RECURSIVE count_parse_resp(_, _)

\* nom::multi::count(parse_resp, n): the value is the sequence of elements
count_parse_resp(n, input) ==
    IF n = 0 THEN POk(input, <<>>)
    ELSE LET r1 == parse_resp(input)
             r2 == count_parse_resp(n - 1, r1.rest)
         IN  IF r1.res # "Ok" THEN r1
             ELSE IF r2.res # "Ok" THEN r2
             ELSE POk(r2.rest, <<r1.value>> \o r2.value)

parse_array(input) ==
    LET r  == number_of("*", input)
        r2 == count_parse_resp(r.value, r.rest)
    IN  IF r.res # "Ok" THEN r
        ELSE IF r.value = -1 THEN POk(r.rest, Null)
        ELSE IF r.value < 0 THEN PError
        ELSE IF r2.res # "Ok" THEN r2
        ELSE POk(r2.rest, Array(r2.value))

\* nom::branch::alt: the first alternative that does not answer Err::Error
parse_resp(input) ==
    LET r1 == parse_simple_string(input)
        r2 == parse_error(input)
        r3 == parse_integer(input)
        r4 == parse_bulk_string(input)
    IN  IF r1.res # "Error" THEN r1
        ELSE IF r2.res # "Error" THEN r2
        ELSE IF r3.res # "Error" THEN r3
        ELSE IF r4.res # "Error" THEN r4
        ELSE parse_array(input)

RECURSIVE serialize_resp(_)
RECURSIVE serialize_all(_)

serialize_all(arr) ==
    IF arr = <<>> THEN <<>>
    ELSE serialize_resp(Head(arr)) \o serialize_all(Tail(arr))

serialize_resp(value) ==
    CASE value.t = "SimpleString" -> <<"+">> \o value.s \o CRLF
      [] value.t = "Error"        -> <<"-">> \o value.s \o CRLF
      [] value.t = "Integer"      -> <<":">> \o IntToBytes(value.i) \o CRLF
      [] value.t = "BulkString"   ->
            <<"$">> \o IntToBytes(Len(value.b)) \o CRLF \o value.b \o CRLF
      [] value.t = "Array"        ->
            <<"*">> \o IntToBytes(Len(value.a)) \o CRLF \o serialize_all(value.a)
      [] value.t = "Null"         -> <<"$", "-", "1">> \o CRLF

---------------------------------------------------------------------------
(* main.rs: the texts of the replies *)

MsgNotArray ==
    <<"E", "R", "R", " ", "c", "o", "m", "m", "a", "n", "d", " ", "m", "u",
      "s", "t", " ", "b", "e", " ", "a", "n", " ", "a", "r", "r", "a", "y">>

MsgEmptyCommand ==
    <<"E", "R", "R", " ", "e", "m", "p", "t", "y", " ", "c", "o", "m", "m",
      "a", "n", "d">>

MsgInvalidName ==
    <<"E", "R", "R", " ", "i", "n", "v", "a", "l", "i", "d", " ", "c", "o",
      "m", "m", "a", "n", "d", " ", "n", "a", "m", "e">>

MsgNoAuth ==
    <<"N", "O", "A", "U", "T", "H", " ", "A", "u", "t", "h", "e", "n", "t",
      "i", "c", "a", "t", "i", "o", "n", " ", "r", "e", "q", "u", "i", "r",
      "e", "d", ".">>

MsgOk ==
    <<"O", "K">>

MsgInvalidPassword ==
    <<"E", "R", "R", " ", "i", "n", "v", "a", "l", "i", "d", " ", "p", "a",
      "s", "s", "w", "o", "r", "d">>

MsgAuthNotNeeded ==
    <<"E", "R", "R", " ", "A", "U", "T", "H", " ", "i", "s", " ", "n", "o",
      "t", " ", "n", "e", "e", "d", "e", "d">>

MsgPong ==
    <<"P", "O", "N", "G">>

MsgArityGet ==
    <<"E", "R", "R", " ", "w", "r", "o", "n", "g", " ", "n", "u", "m", "b",
      "e", "r", " ", "o", "f", " ", "a", "r", "g", "u", "m", "e", "n", "t",
      "s", " ", "f", "o", "r", " ", "'", "G", "E", "T", "'">>

MsgInvalidKey ==
    <<"E", "R", "R", " ", "i", "n", "v", "a", "l", "i", "d", " ", "k", "e",
      "y">>

MsgWrongType ==
    <<"W", "R", "O", "N", "G", "T", "Y", "P", "E", " ", "O", "p", "e", "r",
      "a", "t", "i", "o", "n", " ", "a", "g", "a", "i", "n", "s", "t", " ",
      "a", " ", "k", "e", "y", " ", "h", "o", "l", "d", "i", "n", "g", " ",
      "t", "h", "e", " ", "w", "r", "o", "n", "g", " ", "k", "i", "n", "d",
      " ", "o", "f", " ", "v", "a", "l", "u", "e">>

MsgAritySet ==
    <<"E", "R", "R", " ", "w", "r", "o", "n", "g", " ", "n", "u", "m", "b",
      "e", "r", " ", "o", "f", " ", "a", "r", "g", "u", "m", "e", "n", "t",
      "s", " ", "f", "o", "r", " ", "'", "S", "E", "T", "'">>

MsgInvalidValue ==
    <<"E", "R", "R", " ", "i", "n", "v", "a", "l", "i", "d", " ", "v", "a",
      "l", "u", "e">>

MsgKeysSyntax ==
    <<"E", "R", "R", " ", "a", " ", "s", "i", "n", "t", "a", "x", "e", " ",
      "s", "u", "p", "o", "r", "t", "a", "d", "a", " ", "0xC3", "0xA9", " ",
      "'", "K", "E", "Y", "S", " ", "*", "'">>

MsgArityHSet ==
    <<"E", "R", "R", " ", "w", "r", "o", "n", "g", " ", "n", "u", "m", "b",
      "e", "r", " ", "o", "f", " ", "a", "r", "g", "u", "m", "e", "n", "t",
      "s", " ", "f", "o", "r", " ", "'", "H", "S", "E", "T", "'">>

MsgInvalidField ==
    <<"E", "R", "R", " ", "i", "n", "v", "a", "l", "i", "d", " ", "f", "i",
      "e", "l", "d">>

MsgArityDel ==
    <<"E", "R", "R", " ", "w", "r", "o", "n", "g", " ", "n", "u", "m", "b",
      "e", "r", " ", "o", "f", " ", "a", "r", "g", "u", "m", "e", "n", "t",
      "s", " ", "f", "o", "r", " ", "'", "D", "E", "L", "'">>

MsgUnknownPrefix ==
    <<"E", "R", "R", " ", "u", "n", "k", "n", "o", "w", "n", " ", "c", "o",
      "m", "m", "a", "n", "d", " ", "'">>

NameAuth == <<"A", "U", "T", "H">>
NamePing == <<"P", "I", "N", "G">>
NameGet  == <<"G", "E", "T">>
NameSet  == <<"S", "E", "T">>
NameKeys == <<"K", "E", "Y", "S">>
NameHSet == <<"H", "S", "E", "T">>
NameDel  == <<"D", "E", "L">>

---------------------------------------------------------------------------
(* data_types.rs *)

None    == [some |-> FALSE]
Some(v) == [some |-> TRUE, v |-> v]

\* Value::String and Value::Hash (no command builds a List or a Set)
VString(s) == [t |-> "String", s |-> s]
VHash(h)   == [t |-> "Hash", h |-> h]

\* Command: expiry is an Option<Duration>, in milliseconds
CmdSet(key, value, expiry) ==
    [t |-> "Set", key |-> key, value |-> value, expiry |-> expiry]
CmdHSet(key, field, value) ==
    [t |-> "HSet", key |-> key, field |-> field, value |-> value]
CmdDelete(key) == [t |-> "Delete", key |-> key]

\* KeyMetadata: expiry is an Option<SystemTime>
KeyMetadata(expiry) == [expiry |-> expiry]

\* HashMap
EmptyMap == [k \in {} |-> k]
Insert(m, k, v) == [j \in (DOMAIN m) \cup {k} |-> IF j = k THEN v ELSE m[j]]
Remove(m, k) == [j \in (DOMAIN m) \ {k} |-> m[j]]
RemoveAll(m, ks) == [j \in (DOMAIN m) \ ks |-> m[j]]

---------------------------------------------------------------------------
(* store.rs: a store is [data, metadata, cmd_tx]; cmd_tx is the sequence   *)
(* of every Command sent on the broadcast channel, each receiver has its   *)
(* own cursor into it.                                                     *)

\* broadcast::channel(128)
Capacity == 128

\* Store::get
get(d, key) == IF key \in DOMAIN d THEN Some(d[key]) ELSE None

\* Store::set, were the handler to write the mapping itself as well
set_direct(st, key, value, expiry) ==
    [st EXCEPT !.data = Insert(@, key, value),
               !.cmd_tx = Append(@, CmdSet(key, value, expiry))]

\* Store::set: only sends
set(st, key, value, expiry) ==
    [st EXCEPT !.cmd_tx = Append(@, CmdSet(key, value, expiry))]

\* Store::hset, under the read lock: the type check and `created`
hset_check(d, key, field) ==
    IF key \in DOMAIN d
    THEN IF d[key].t = "Hash"
         THEN [ok |-> TRUE, created |-> ~(field \in DOMAIN d[key].h)]
         ELSE [ok |-> FALSE, err |-> MsgWrongType]
    ELSE [ok |-> TRUE, created |-> TRUE]

\* Store::hset, after the read lock is dropped: the send
hset_send(st, key, field, value) ==
    [st EXCEPT !.cmd_tx = Append(@, CmdHSet(key, field, value))]

\* Store::delete, under the read lock
delete_exists(d, key) == key \in DOMAIN d

\* Store::delete, were the send left out
delete_send_silent(st, key) == st

\* Store::delete, after the read lock is dropped: the send
delete_send(st, key) == [st EXCEPT !.cmd_tx = Append(@, CmdDelete(key))]

\* a receiver that takes the newest command waiting instead of the oldest
recv_newest(tx, pos) ==
    IF Len(tx) - pos > Capacity THEN [ok |-> FALSE]
    ELSE [ok |-> TRUE, cmd |-> tx[Len(tx)]]

\* broadcast::Receiver::recv of a receiver that has taken pos commands:
\* Err(Lagged) once more than the capacity is waiting
recv(tx, pos) ==
    IF Len(tx) - pos > Capacity THEN [ok |-> FALSE]
    ELSE [ok |-> TRUE, cmd |-> tx[pos + 1]]

\* Numbers of 64 bits are kept as their decimal digits, without leading
\* zeros: u64::MAX, and i64::MAX seconds counted in milliseconds.
U64Max ==
    <<"1", "8", "4", "4", "6", "7", "4", "4", "0", "7",
      "3", "7", "0", "9", "5", "5", "1", "6", "1", "5">>
I64MaxSecsAsMillis ==
    <<"9", "2", "2", "3", "3", "7", "2", "0", "3", "6", "8",
      "5", "4", "7", "7", "5", "8", "0", "7", "9", "9", "9">>

RECURSIVE StripZeros(_)
StripZeros(ds) ==
    IF Len(ds) > 1 /\ Head(ds) = "0" THEN StripZeros(Tail(ds)) ELSE ds

\* a <= b, for digits without leading zeros
DigitsLeq(a, b) ==
    \/ Len(a) < Len(b)
    \/ /\ Len(a) = Len(b)
       /\ \/ a = b
          \/ \E i \in 1..Len(a) :
                /\ DigitVal(a[i]) < DigitVal(b[i])
                /\ \A j \in 1..(i - 1) : a[j] = b[j]

\* an instant later than every instant the clock of a run reaches
Far == 2000000000

\* SystemTime::now() + duration, the duration given as the digits of its
\* milliseconds: None where the sum does not fit the i64 seconds of a
\* SystemTime and the addition panics
checked_add(time, duration) ==
    IF Len(duration) <= 9 THEN Some(time + DigitsValue(duration))
    ELSE IF DigitsLeq(duration, I64MaxSecsAsMillis) THEN Some(Far)
    ELSE None

\* process_commands, the section under the data write lock
apply_data(d, cmd) ==
    CASE cmd.t = "Set" -> Insert(d, cmd.key, cmd.value)
      [] cmd.t = "HSet" ->
            LET entry == IF cmd.key \in DOMAIN d THEN d[cmd.key]
                         ELSE VHash(EmptyMap)
            IN  IF entry.t = "Hash"
                THEN Insert(d, cmd.key, VHash(Insert(entry.h, cmd.field, cmd.value)))
                ELSE d
      [] cmd.t = "Delete" -> Remove(d, cmd.key)

\* process_commands, the section under the metadata write lock
apply_meta(m, cmd, time) ==
    CASE cmd.t = "Set" ->
            IF cmd.expiry.some
            THEN Insert(m, cmd.key, KeyMetadata(checked_add(time, cmd.expiry.v)))
            ELSE Remove(m, cmd.key)
      [] cmd.t = "HSet" -> m
      [] cmd.t = "Delete" -> Remove(m, cmd.key)

\* clean_expired, under the metadata read lock
collect_expired(m, time) ==
    {k \in DOMAIN m : m[k].expiry.some /\ time >= m[k].expiry.v}

---------------------------------------------------------------------------
(* main.rs: process_command.  The answer is what the command still has to  *)
(* do: reply at once, or go through the store.                             *)

Reply(r) == [kind |-> "reply", reply |-> r]

\* str::parse::<u64>: the digits of the number, or an error
parse_u64(s) ==
    LET body == IF s # <<>> /\ Head(s) = "+" THEN Tail(s) ELSE s
    IN  IF /\ body # <<>>
           /\ \A i \in 1..Len(body) : IsDigit(body[i])
           /\ DigitsLeq(StripZeros(body), U64Max)
        THEN Some(StripZeros(body)) ELSE None

\* Duration::from_millis, Duration::from_secs: a Duration is kept as the
\* digits of its milliseconds
from_millis(ds) == ds
from_secs(ds) == IF ds = <<"0">> THEN ds ELSE ds \o <<"0", "0", "0">>

\* the check before the match on the command name, were it left out
auth_required_off(auth, command_name) == FALSE

\* the check before the match on the command name
auth_required(auth, command_name) == ~auth /\ command_name # NameAuth

\* AUTH with a wrong password, were it to end the session's authentication
cmd_auth_revoking(args, auth, pass) ==
    IF pass.some
    THEN IF Len(args) = 1 /\ to_string_or_default(args[1]) = pass.v
         THEN [kind |-> "auth", authenticated |-> TRUE, reply |-> SimpleString(MsgOk)]
         ELSE [kind |-> "auth", authenticated |-> FALSE,
               reply |-> Error(MsgInvalidPassword)]
    ELSE [kind |-> "auth", authenticated |-> auth, reply |-> Error(MsgAuthNotNeeded)]

\* AUTH: *authenticated is assigned in the branch of the right password only
cmd_auth(args, auth, pass) ==
    IF pass.some
    THEN IF Len(args) = 1 /\ to_string_or_default(args[1]) = pass.v
         THEN [kind |-> "auth", authenticated |-> TRUE, reply |-> SimpleString(MsgOk)]
         ELSE [kind |-> "auth", authenticated |-> auth,
               reply |-> Error(MsgInvalidPassword)]
    ELSE [kind |-> "auth", authenticated |-> auth, reply |-> Error(MsgAuthNotNeeded)]

cmd_ping(args) ==
    IF args = <<>> THEN Reply(SimpleString(MsgPong))
    ELSE IF to_string(args[1]).ok THEN Reply(BulkString(to_string(args[1]).s))
    ELSE Reply(SimpleString(MsgPong))

\* a GET that sends the value it reads as a Set command
cmd_get_publishing(args, d) ==
    IF Len(args) # 1 THEN Reply(Error(MsgArityGet))
    ELSE IF ~to_string(args[1]).ok THEN Reply(Error(MsgInvalidKey))
    ELSE LET v == get(d, to_string(args[1]).s)
         IN  IF ~v.some THEN Reply(Null)
             ELSE IF v.v.t = "String"
             THEN [kind |-> "set", key |-> to_string(args[1]).s,
                   value |-> v.v, expiry |-> None]
             ELSE Reply(Error(MsgWrongType))

cmd_get(args, d) ==
    IF Len(args) # 1 THEN Reply(Error(MsgArityGet))
    ELSE IF ~to_string(args[1]).ok THEN Reply(Error(MsgInvalidKey))
    ELSE LET v == get(d, to_string(args[1]).s)
         IN  IF ~v.some THEN Reply(Null)
             ELSE IF v.v.t = "String" THEN Reply(BulkString(v.v.s))
             ELSE Reply(Error(MsgWrongType))

\* the tokens after key and value: PX millis or EX seconds
set_expiry(opts) ==
    IF opts = <<>> \/ ~to_string(opts[1]).ok THEN None
    ELSE LET opt == to_uppercase(to_string(opts[1]).s)
             num == IF Len(opts) >= 2 /\ to_string(opts[2]).ok
                    THEN parse_u64(to_string(opts[2]).s) ELSE None
         IN  IF opt = <<"P", "X">> /\ Len(opts) >= 2
             THEN (IF num.some THEN Some(from_millis(num.v)) ELSE None)
             ELSE IF opt = <<"E", "X">> /\ Len(opts) >= 2
             THEN (IF num.some THEN Some(from_secs(num.v)) ELSE None)
             ELSE None

cmd_set(args) ==
    IF Len(args) < 2 THEN Reply(Error(MsgAritySet))
    ELSE IF ~to_string(args[1]).ok THEN Reply(Error(MsgInvalidKey))
    ELSE IF ~to_string(args[2]).ok THEN Reply(Error(MsgInvalidValue))
    ELSE [kind |-> "set", key |-> to_string(args[1]).s,
          value |-> VString(to_string(args[2]).s),
          expiry |-> set_expiry(Drop(args, 2))]

cmd_keys(args) ==
    IF Len(args) # 1 \/ to_string_or_default(args[1]) # <<"*">>
    THEN Reply(Error(MsgKeysSyntax))
    ELSE [kind |-> "keys"]

cmd_hset(args, d) ==
    IF Len(args) # 3 THEN Reply(Error(MsgArityHSet))
    ELSE IF ~to_string(args[1]).ok THEN Reply(Error(MsgInvalidKey))
    ELSE IF ~to_string(args[2]).ok THEN Reply(Error(MsgInvalidField))
    ELSE IF ~to_string(args[3]).ok THEN Reply(Error(MsgInvalidValue))
    ELSE LET key == to_string(args[1]).s
             field == to_string(args[2]).s
             chk == hset_check(d, key, field)
         IN  IF chk.ok
             THEN [kind |-> "hset", key |-> key, field |-> field,
                   value |-> to_string(args[3]).s, created |-> chk.created]
             ELSE Reply(Error(chk.err))

cmd_del(args) ==
    IF args = <<>> THEN Reply(Error(MsgArityDel))
    ELSE [kind |-> "del", args |-> args]

process_command(cmd, d, auth, pass) ==
    IF cmd.t # "Array" THEN Reply(Error(MsgNotArray))
    ELSE IF cmd.a = <<>> THEN Reply(Error(MsgEmptyCommand))
    ELSE IF ~to_string(Head(cmd.a)).ok THEN Reply(Error(MsgInvalidName))
    ELSE LET command_name == to_uppercase(to_string(Head(cmd.a)).s)
             args == Tail(cmd.a)
         IN  IF auth_required(auth, command_name) THEN Reply(Error(MsgNoAuth))
             ELSE CASE command_name = NameAuth -> cmd_auth(args, auth, pass)
                    [] command_name = NamePing -> cmd_ping(args)
                    [] command_name = NameGet  -> cmd_get(args, d)
                    [] command_name = NameSet  -> cmd_set(args)
                    [] command_name = NameKeys -> cmd_keys(args)
                    [] command_name = NameHSet -> cmd_hset(args, d)
                    [] command_name = NameDel  -> cmd_del(args)
                    [] OTHER ->
                        Reply(Error(MsgUnknownPrefix \o command_name \o <<"'">>))

---------------------------------------------------------------------------
(* Bounds and inputs *)

\* commands the clients send in a run
MaxCmds == 2
\* commands the clients send in a run where a password may be configured
MaxAuthCmds == 4
\* SET commands the client sends in a run
MaxSetCmds == 2
\* commands the client sends in a run with the persistence tasks
MaxPersistCmds == 2
\* commands the client sends in a run with commands that are refused
MaxErrCmds == 3
\* commands the client sends in a run with commands that only read
MaxReadCmds == 3
\* commands one client sends in a run where the consumer falls behind:
\* one more than the channel holds
MaxBurst == 129
\* commands the client sends in a run where the file system may fail
MaxFailCmds == 2
\* snapshots installed in a run
MaxSnaps == 1
\* failures of the file system in a run
MaxFaults == 1
\* restarts of the process in a run
MaxBoots == 1
\* the clock stops here
MaxTime == 1
\* nodes of a sample frame of the codec
MaxNodes == 3

Conns == {1, 2}

KeyA == <<"a">>
KeyB == <<"b">>
FieldF == <<"f">>
ValX == <<"x">>
ValY == <<"y">>
Pw == <<"p", "w">>
NotPw == <<"n", "o">>

\* a command as a client sends it: an array of bulk strings
Cmd(parts) == Array([i \in 1..Len(parts) |-> BulkString(parts[i])])

\* what the first client may send
Menu1 ==
    { Cmd(<<NameSet, KeyA, ValX>>),
      Cmd(<<NameSet, KeyA, ValY, <<"P", "X">>, <<"1">>>>),
      Cmd(<<<<"g", "e", "t">>, KeyA>>),
      Cmd(<<NameHSet, KeyA, FieldF, ValX>>),
      Cmd(<<NameDel, KeyA, KeyB>>),
      Cmd(<<NameDel, KeyA, KeyA>>) }

\* what the second client may send
Menu2 ==
    { Cmd(<<NameSet, KeyA, ValY>>),
      Cmd(<<NameHSet, KeyA, FieldF, ValY>>),
      Cmd(<<NameDel, KeyA>>) }

\* what the first client may send where a password may be configured
AuthMenu1 ==
    { Cmd(<<NameAuth, Pw>>),
      Cmd(<<NameAuth, NotPw>>),
      Cmd(<<NameSet, KeyA, ValX>>),
      Cmd(<<NameDel, KeyA, KeyA>>) }

\* the SET commands a client may send: no modifier, PX, EX, and EX with
\* u64::MAX seconds
SetMenu ==
    { Cmd(<<NameSet, KeyA, ValX>>),
      Cmd(<<NameSet, KeyA, ValY, <<"P", "X">>, <<"1">>>>),
      Cmd(<<NameSet, KeyA, ValY, <<"E", "X">>, <<"1">>>>),
      Cmd(<<NameSet, KeyA, ValX, <<"e", "x">>, U64Max>>) }

SetWire == { serialize_resp(frame) : frame \in SetMenu }

\* what the client may send in a run with the persistence tasks
PersistMenu ==
    { Cmd(<<NameSet, KeyA, ValY, <<"P", "X">>, <<"1">>>>),
      Cmd(<<NameHSet, KeyB, FieldF, ValX>>),
      Cmd(<<NameDel, KeyA>>) }

PersistWire == { serialize_resp(frame) : frame \in PersistMenu }

\* what the client may send in a run with commands that are refused: a
\* wrong password, a GET without key, an unknown command, a KEYS pattern,
\* a SET whose key is an integer, and a SET and an HSET of the same key
ErrMenu ==
    { Cmd(<<NameAuth, NotPw>>),
      Cmd(<<NameGet>>),
      Cmd(<<<<"F", "O", "O">>>>),
      Cmd(<<NameKeys, KeyA>>),
      Array(<<BulkString(NameSet), Integer(1), BulkString(ValX)>>),
      Cmd(<<NameSet, KeyA, ValX>>),
      Cmd(<<NameHSet, KeyA, FieldF, ValX>>) }

ErrWire == { serialize_resp(frame) : frame \in ErrMenu }

\* what the client may send in a run with commands that only read
ReadMenu ==
    { Cmd(<<NameSet, KeyA, ValX>>),
      Cmd(<<NameHSet, KeyA, FieldF, ValX>>),
      Cmd(<<NameGet, KeyA>>),
      Cmd(<<NameKeys, <<"*">>>>),
      Cmd(<<NamePing>>),
      Cmd(<<NameDel, KeyA, KeyB>>) }

ReadWire == { serialize_resp(frame) : frame \in ReadMenu }

Wire1 == { serialize_resp(frame) : frame \in Menu1 }
Wire2 == { serialize_resp(frame) : frame \in Menu2 }
AuthWire1 == { serialize_resp(frame) : frame \in AuthMenu1 }

\* the bytes of one command of the client's menu
MenuWire(c) == IF c = 1 THEN Wire1 ELSE Wire2
AuthMenuWire(c) == IF c = 1 THEN AuthWire1 ELSE Wire2

\* serde_json::to_writer of a Snapshot: the data mapping, the metadata
\* mapping, the closing brace
to_writer(snap) ==
    <<[part |-> "data", map |-> snap.data],
      [part |-> "metadata", map |-> snap.metadata],
      [part |-> "end", map |-> EmptyMap]>>

\* serde_json::from_slice: an error unless the content is one whole Snapshot
from_slice(content) ==
    IF /\ Len(content) = 3
       /\ content[1].part = "data"
       /\ content[2].part = "metadata"
       /\ content[3].part = "end"
    THEN Some([data |-> content[1].map, metadata |-> content[2].map])
    ELSE None

\* the snapshot a previous run may have left
Snapshot0 ==
    [data |-> Insert(EmptyMap, KeyB, VString(ValX)),
     metadata |-> Insert(EmptyMap, KeyB, KeyMetadata(Some(1)))]

\* the frames the codec is sampled on
Scalars ==
    { SimpleString(<<>>), SimpleString(<<"O", "K">>), Error(<<"e">>),
      Integer(-1), Integer(10), BulkString(<<>>), BulkString(<<"a", CR>>),
      Null }

RECURSIVE FramesOfSize(_)
RECURSIVE SeqsOfSize(_)

\* the sequences of frames with n nodes in all
SeqsOfSize(n) ==
    IF n = 0 THEN {<<>>}
    ELSE UNION { { <<f>> \o rest : f \in FramesOfSize(k), rest \in SeqsOfSize(n - k) }
                 : k \in 1..n }

\* the frames with exactly n nodes
FramesOfSize(n) ==
    IF n = 1 THEN Scalars \cup {Array(<<>>)}
    ELSE { Array(a) : a \in SeqsOfSize(n - 1) }

Frames == UNION { FramesOfSize(n) : n \in 1..MaxNodes }

\* the orders a HashMap may iterate a set of keys in
Orders(S) ==
    { o \in [1..Cardinality(S) -> S] : \A i, j \in 1..Cardinality(S) : i # j => o[i] # o[j] }

---------------------------------------------------------------------------
(* State *)

VARIABLES
    data,           \* Store.data
    metadata,       \* Store.metadata
    cmd_tx,         \* every Command sent on the broadcast channel, in order
    cmd_rx,         \* process_commands: how many commands its receiver took
    engPc,          \* process_commands: "recv", "meta", "stopped" (the loop
                    \* ended) or "panicked"
    engCmd,         \* process_commands: the command being applied
    swPc,           \* clean_expired: "idle", or "remove" once the scan is done
    swNow,          \* clean_expired: now
    expired_keys,   \* clean_expired: expired_keys
    now,            \* SystemTime::now(), in milliseconds
    password,       \* Settings.requirepass
    snapshot_file,  \* the content of data.snapshot.json, if it exists
    mainPc,         \* main: "load" before load_from_disk, then "serve"
    buffer,         \* handle_connection: buffer, per connection
    connPc,         \* handle_connection: "read", "parse", "hsetSend",
                    \* "delCheck", "delSend" or "closed"
    authenticated,  \* handle_connection: authenticated
    loc,            \* the locals of the store call in progress
    hist,           \* per connection, the frames processed with their replies
    origin,         \* for each command of cmd_tx, <<connection, index in hist>>
    effect,         \* for each command taken by process_commands, what it did
    sentCmds,       \* commands sent by the clients so far
    sample,         \* codec: the frame sampled
    wire,           \* codec: the bytes the client has to send
    decoded,        \* codec: the result of parse_resp on the sample's bytes
    sent,           \* codec: how many bytes of wire were delivered
    snapPc,         \* create_snapshot: "idle", "meta" (the data read guard
                    \* is held), "write" or "rename"
    snapshot,       \* create_snapshot: snapshot
    temp_file,      \* the content of data.snapshot.tmp, if it exists
    aof_file,       \* the content of data.aof, if it exists
    aofPc,          \* run_aof_persistence: "init", "recv", "stopped" (the
                    \* loop ended) or "ended" (the file did not open)
    aof_rx,         \* run_aof_persistence: how many commands of cmd_tx its
                    \* receiver is past
    stderr,         \* what the process reported with eprintln
    faults,         \* failures of the file system so far
    snaps,          \* snapshot cycles started so far
    boots,          \* restarts of the process so far
    loaded,         \* the mappings as load_from_disk left them
    locks           \* for each RwLock of Store, the guards alive and the
                    \* tasks waiting in acquire, oldest first

storeVars == <<data, metadata, cmd_tx>>
engVars   == <<cmd_rx, engPc, engCmd>>
swVars    == <<swPc, swNow, expired_keys>>
envVars   == <<now, password, snapshot_file, mainPc>>
connVars  == <<buffer, connPc, authenticated, loc, hist>>
codecVars == <<sample, wire, decoded, sent>>

persistVars == <<snapPc, snapshot, temp_file, aof_file, aofPc, aof_rx, stderr,
                 faults, snaps, boots, loaded, locks>>

vars == <<storeVars, engVars, swVars, envVars, connVars, origin, effect,
          sentCmds, codecVars, persistVars>>

NoLoc == [k |-> "none"]

\* the two RwLocks of Store, both free and with nobody waiting
Locks == {"data", "metadata"}
NoLocks == [l \in Locks |-> [held |-> {}, queue |-> <<>>]]
NoCmd == [t |-> "none"]
NoFrame == [t |-> "none"]
NoResult == [res |-> "none"]
NoSnapshot == [data |-> EmptyMap, metadata |-> EmptyMap]

TheStore == [data |-> data, metadata |-> metadata, cmd_tx |-> cmd_tx]

\* Store::new, then main up to load_from_disk
InitCommon ==
    /\ data = EmptyMap
    /\ metadata = EmptyMap
    /\ cmd_tx = <<>>
    /\ cmd_rx = 0
    /\ engPc = "recv"
    /\ engCmd = NoCmd
    /\ swPc = "idle"
    /\ swNow = 0
    /\ expired_keys = {}
    /\ now = 0
    /\ mainPc = "load"
    /\ buffer = [c \in Conns |-> <<>>]
    /\ connPc = [c \in Conns |-> "read"]
    /\ authenticated = [c \in Conns |-> ~password.some]
    /\ loc = [c \in Conns |-> NoLoc]
    /\ hist = [c \in Conns |-> <<>>]
    /\ origin = <<>>
    /\ effect = <<>>
    /\ sentCmds = 0
    /\ wire = <<>>
    /\ decoded = NoResult
    /\ sent = 0
    /\ snapPc = "idle"
    /\ snapshot = NoSnapshot
    /\ temp_file = None
    /\ aof_file = None
    /\ aofPc = "init"
    /\ aof_rx = 0
    /\ stderr = <<>>
    /\ faults = 0
    /\ snaps = 0
    /\ boots = 0
    /\ loaded = NoSnapshot
    /\ locks = NoLocks

Init ==
    /\ password = None
    /\ snapshot_file \in {None, Some(to_writer(Snapshot0))}
    /\ sample = NoFrame
    /\ InitCommon

---------------------------------------------------------------------------
(* persistence.rs: load_from_disk, before any task but the consumer runs *)

\* a load_snapshot that replaces the data mapping and keeps the metadata
load_snapshot_data_only(st, file) ==
    IF from_slice(file).some
    THEN [ok |-> TRUE, st |-> [st EXCEPT !.data = from_slice(file).v.data]]
    ELSE [ok |-> FALSE, st |-> st]

\* load_snapshot: both mappings are replaced, or the error is returned
load_snapshot(st, file) ==
    IF from_slice(file).some
    THEN [ok |-> TRUE,
          st |-> [st EXCEPT !.data = from_slice(file).v.data,
                            !.metadata = from_slice(file).v.metadata]]
    ELSE [ok |-> FALSE, st |-> st]

LoadFromDisk ==
    /\ mainPc = "load"
    /\ mainPc' = "serve"
    /\ \E r \in {IF snapshot_file.some THEN load_snapshot(TheStore, snapshot_file.v)
                  ELSE [ok |-> TRUE, st |-> TheStore]} :
          /\ data' = r.st.data
          /\ metadata' = r.st.metadata
          /\ loaded' = [data |-> r.st.data, metadata |-> r.st.metadata]
          /\ stderr' = IF r.ok THEN stderr ELSE Append(stderr, "load")
    /\ UNCHANGED <<cmd_tx, engVars, swVars, now, password, snapshot_file,
                   connVars, origin, effect, sentCmds, codecVars, snapPc,
                   snapshot, temp_file, aof_file, aofPc, aof_rx, faults, snaps,
                   boots, locks>>

---------------------------------------------------------------------------
(* store.rs: process_commands, the single consumer *)

\* what applying cmd to d does (for the record kept in effect)
effect_of(d, cmd) ==
    CASE cmd.t = "Set" -> "set"
      [] cmd.t = "HSet" ->
            IF ~(cmd.key \in DOMAIN d) THEN "created"
            ELSE IF d[cmd.key].t # "Hash" THEN "discarded"
            ELSE IF cmd.field \in DOMAIN d[cmd.key].h THEN "overwrote"
            ELSE "created"
      [] cmd.t = "Delete" ->
            IF cmd.key \in DOMAIN d THEN "removed" ELSE "absent"

\* recv, then the section under the data write lock
EngineRecv ==
    /\ engPc = "recv"
    /\ snapPc # "meta"
    /\ cmd_rx < Len(cmd_tx)
    /\ LET r == recv(cmd_tx, cmd_rx)
       IN  IF r.ok
           THEN /\ data' = apply_data(data, r.cmd)
                /\ cmd_rx' = cmd_rx + 1
                /\ engCmd' = r.cmd
                /\ engPc' = IF r.cmd.t = "HSet" THEN "recv" ELSE "meta"
                /\ effect' = Append(effect, effect_of(data, r.cmd))
           ELSE /\ engPc' = "stopped"
                /\ UNCHANGED <<data, cmd_rx, engCmd, effect>>
    /\ UNCHANGED <<metadata, cmd_tx, swVars, envVars, connVars, origin,
                   sentCmds, codecVars, persistVars>>

\* the section under the metadata write lock (Set and Delete); where
\* SystemTime::now() + duration panics: the task ends, the guard is dropped
EngineMeta ==
    /\ engPc = "meta"
    /\ IF engCmd.t = "Set" /\ engCmd.expiry.some
          /\ ~checked_add(now, engCmd.expiry.v).some
       THEN /\ engPc' = "panicked"
            /\ metadata' = metadata
       ELSE /\ engPc' = "recv"
            /\ metadata' = apply_meta(metadata, engCmd, now)
    /\ engCmd' = NoCmd
    /\ UNCHANGED <<data, cmd_tx, cmd_rx, swVars, envVars, connVars, origin,
                   effect, sentCmds, codecVars, persistVars>>

---------------------------------------------------------------------------
(* store.rs: clean_expired, run by the cleaning task of main *)

\* now, then the scan under the metadata read lock
SweepScan ==
    /\ mainPc = "serve"
    /\ swPc = "idle"
    /\ swNow' = now
    /\ expired_keys' = collect_expired(metadata, swNow')
    /\ swPc' = IF expired_keys' = {} THEN "idle" ELSE "remove"
    /\ UNCHANGED <<storeVars, engVars, envVars, connVars, origin, effect,
                   sentCmds, codecVars, persistVars>>

\* the removals, under both write locks
SweepRemove ==
    /\ swPc = "remove"
    /\ snapPc # "meta"
    /\ data' = RemoveAll(data, expired_keys)
    /\ metadata' = RemoveAll(metadata, expired_keys)
    /\ expired_keys' = {}
    /\ swPc' = "idle"
    /\ UNCHANGED <<cmd_tx, engVars, swNow, envVars, connVars, origin,
                   effect, sentCmds, codecVars, persistVars>>

Tick ==
    /\ now < MaxTime
    /\ now' = now + 1
    /\ UNCHANGED <<storeVars, engVars, swVars, password, snapshot_file,
                   mainPc, connVars, origin, effect, sentCmds, codecVars, persistVars>>

---------------------------------------------------------------------------
(* main.rs: handle_connection *)

\* reader.read_buf that read nothing: the peer closed
ReadEof(c) ==
    /\ mainPc = "serve"
    /\ connPc[c] = "read"
    /\ connPc' = [connPc EXCEPT ![c] = "closed"]
    /\ UNCHANGED <<storeVars, engVars, swVars, envVars, buffer, authenticated,
                   loc, hist, origin, effect, sentCmds, codecVars, persistVars>>

\* a Respond that ends the connection after an error response
Respond_closing(c, frame, rest, response) ==
    /\ hist' = [hist EXCEPT ![c] = Append(@, [cmd |-> frame, reply |-> response])]
    /\ buffer' = [buffer EXCEPT ![c] = rest]
    /\ connPc' = [connPc EXCEPT ![c] =
                    IF response.t = "Error" THEN "closed"
                    ELSE IF rest = <<>> THEN "read" ELSE "parse"]
    /\ loc' = [loc EXCEPT ![c] = NoLoc]

\* a Respond that empties the buffer instead of advancing it
Respond_clear(c, frame, rest, response) ==
    /\ hist' = [hist EXCEPT ![c] = Append(@, [cmd |-> frame, reply |-> response])]
    /\ buffer' = [buffer EXCEPT ![c] = <<>>]
    /\ connPc' = [connPc EXCEPT ![c] = "read"]
    /\ loc' = [loc EXCEPT ![c] = NoLoc]

\* the response is written, the frame's bytes leave the buffer, and the
\* inner loop goes on while the buffer holds bytes
Respond(c, frame, rest, response) ==
    /\ hist' = [hist EXCEPT ![c] = Append(@, [cmd |-> frame, reply |-> response])]
    /\ buffer' = [buffer EXCEPT ![c] = rest]
    /\ connPc' = [connPc EXCEPT ![c] = IF rest = <<>> THEN "read" ELSE "parse"]
    /\ loc' = [loc EXCEPT ![c] = NoLoc]

Publish(st, c) ==
    /\ cmd_tx' = st.cmd_tx
    /\ data' = st.data
    /\ metadata' = st.metadata
    /\ origin' = origin \o [i \in 1..(Len(st.cmd_tx) - Len(cmd_tx)) |->
                              <<c, Len(hist[c]) + 1>>]

\* One turn of the inner loop on the bytes buf: parse_resp, then
\* process_command up to its first await past the store.  buffer.advance
\* leaves r.rest: the bytes after the frame.
ParseLoop(c, buf) ==
    \E r \in {parse_resp(buf)} :
    \E plan \in {IF r.res = "Ok"
                 THEN process_command(r.value, data, authenticated[c], password)
                 ELSE Reply(Null)} :
        IF r.res = "Error"
        THEN /\ connPc' = [connPc EXCEPT ![c] = "closed"]
             /\ buffer' = [buffer EXCEPT ![c] = buf]
             /\ UNCHANGED <<storeVars, authenticated, loc, hist, origin>>
        ELSE IF r.res = "Incomplete"
        THEN /\ connPc' = [connPc EXCEPT ![c] = "read"]
             /\ buffer' = [buffer EXCEPT ![c] = buf]
             /\ UNCHANGED <<storeVars, authenticated, loc, hist, origin>>
        ELSE CASE plan.kind = "reply" ->
                     /\ Respond(c, r.value, r.rest, plan.reply)
                     /\ UNCHANGED <<storeVars, authenticated, origin>>
               [] plan.kind = "auth" ->
                     /\ Respond(c, r.value, r.rest, plan.reply)
                     /\ authenticated' = [authenticated EXCEPT ![c] = plan.authenticated]
                     /\ UNCHANGED <<storeVars, origin>>
               [] plan.kind = "set" ->
                     /\ Publish(set(TheStore, plan.key, plan.value, plan.expiry), c)
                     /\ Respond(c, r.value, r.rest, SimpleString(MsgOk))
                     /\ UNCHANGED authenticated
               [] plan.kind = "keys" ->
                     /\ \E o \in Orders(DOMAIN data) :
                           Respond(c, r.value, r.rest,
                                   Array([i \in 1..Len(o) |-> BulkString(o[i])]))
                     /\ UNCHANGED <<storeVars, authenticated, origin>>
               [] plan.kind = "hset" ->
                     /\ loc' = [loc EXCEPT ![c] =
                                  [k |-> "hset", frame |-> r.value, rest |-> r.rest,
                                   key |-> plan.key, field |-> plan.field,
                                   value |-> plan.value, created |-> plan.created]]
                     /\ connPc' = [connPc EXCEPT ![c] = "hsetSend"]
                     /\ buffer' = [buffer EXCEPT ![c] = buf]
                     /\ UNCHANGED <<storeVars, authenticated, hist, origin>>
               [] plan.kind = "del" ->
                     /\ loc' = [loc EXCEPT ![c] =
                                  [k |-> "del", frame |-> r.value, rest |-> r.rest,
                                   args |-> plan.args, key |-> <<>>,
                                   deleted_count |-> 0]]
                     /\ connPc' = [connPc EXCEPT ![c] = "delCheck"]
                     /\ buffer' = [buffer EXCEPT ![c] = buf]
                     /\ UNCHANGED <<storeVars, authenticated, hist, origin>>

\* read_buf read chunk, and the first turn of the inner loop
ReadAndParse(c, chunk) ==
    /\ mainPc = "serve"
    /\ connPc[c] = "read"
    /\ chunk # <<>>
    /\ ParseLoop(c, buffer[c] \o chunk)
    /\ UNCHANGED <<engVars, swVars, envVars, effect>>

\* a further turn of the inner loop: bytes were left after the last frame
ParseFrame(c) ==
    /\ connPc[c] = "parse"
    /\ ParseLoop(c, buffer[c])
    /\ UNCHANGED <<engVars, swVars, envVars, effect, sentCmds, codecVars, persistVars>>

\* Store::hset after the check: the send, then Ok(1) or Ok(0)
HSetSend(c) ==
    /\ connPc[c] = "hsetSend"
    /\ Publish(hset_send(TheStore, loc[c].key, loc[c].field, loc[c].value), c)
    /\ Respond(c, loc[c].frame, loc[c].rest, Integer(IF loc[c].created THEN 1 ELSE 0))
    /\ UNCHANGED <<engVars, swVars, envVars, authenticated, effect, sentCmds,
                   codecVars, persistVars>>

\* DEL: the next argument, and Store::delete under the read lock
DelCheck(c) ==
    /\ connPc[c] = "delCheck"
    /\ LET arg == Head(loc[c].args)
           rest == Tail(loc[c].args)
           exists == to_string(arg).ok /\ delete_exists(data, to_string(arg).s)
       IN  IF exists
           THEN /\ loc' = [loc EXCEPT ![c].args = rest, ![c].key = to_string(arg).s]
                /\ connPc' = [connPc EXCEPT ![c] = "delSend"]
                /\ UNCHANGED <<buffer, hist>>
           ELSE IF rest = <<>>
           THEN Respond(c, loc[c].frame, loc[c].rest, Integer(loc[c].deleted_count))
           ELSE /\ loc' = [loc EXCEPT ![c].args = rest]
                /\ UNCHANGED <<buffer, connPc, hist>>
    /\ UNCHANGED <<storeVars, engVars, swVars, envVars, authenticated, origin,
                   effect, sentCmds, codecVars, persistVars>>

\* DEL: Store::delete after the check found the key: the send
DelSend(c) ==
    /\ connPc[c] = "delSend"
    /\ Publish(delete_send(TheStore, loc[c].key), c)
    /\ IF loc[c].args = <<>>
       THEN Respond(c, loc[c].frame, loc[c].rest, Integer(loc[c].deleted_count + 1))
       ELSE /\ loc' = [loc EXCEPT ![c].deleted_count = @ + 1]
            /\ connPc' = [connPc EXCEPT ![c] = "delCheck"]
            /\ UNCHANGED <<buffer, hist>>
    /\ UNCHANGED <<engVars, swVars, envVars, authenticated, effect, sentCmds,
                   codecVars, persistVars>>

---------------------------------------------------------------------------
(* The clients *)

\* a client sends one command of its menu, whole
ClientSend(c) ==
    /\ sentCmds < MaxCmds
    /\ \E chunk \in MenuWire(c) : ReadAndParse(c, chunk)
    /\ sentCmds' = sentCmds + 1
    /\ UNCHANGED <<codecVars, persistVars>>

Next ==
    \/ LoadFromDisk
    \/ EngineRecv
    \/ EngineMeta
    \/ SweepScan
    \/ SweepRemove
    \/ Tick
    \/ \E c \in Conns : ClientSend(c)
    \/ \E c \in Conns : HSetSend(c)
    \/ \E c \in Conns : DelCheck(c)
    \/ \E c \in Conns : DelSend(c)

Spec == Init /\ [][Next]_vars

---------------------------------------------------------------------------
(* Sessions: requirepass set or not, no snapshot, the cleaning task idle *)

InitAuth ==
    /\ password \in {None, Some(Pw)}
    /\ snapshot_file = None
    /\ sample = NoFrame
    /\ InitCommon

ClientSendAuth(c) ==
    /\ sentCmds < MaxAuthCmds
    /\ \E chunk \in AuthMenuWire(c) : ReadAndParse(c, chunk)
    /\ sentCmds' = sentCmds + 1
    /\ UNCHANGED <<codecVars, persistVars>>

NextAuth ==
    \/ LoadFromDisk
    \/ EngineRecv
    \/ EngineMeta
    \/ \E c \in Conns : ClientSendAuth(c)
    \/ \E c \in Conns : HSetSend(c)
    \/ \E c \in Conns : DelCheck(c)
    \/ \E c \in Conns : DelSend(c)

SpecAuth == InitAuth /\ [][NextAuth]_vars

---------------------------------------------------------------------------
(* SET and its expiry: one client, the consumer and the clock *)

ClientSendSet(c) ==
    /\ sentCmds < MaxSetCmds
    /\ \E chunk \in SetWire : ReadAndParse(c, chunk)
    /\ sentCmds' = sentCmds + 1
    /\ UNCHANGED <<codecVars, persistVars>>

NextSet ==
    \/ LoadFromDisk
    \/ EngineRecv
    \/ EngineMeta
    \/ Tick
    \/ ClientSendSet(1)

InitSet ==
    /\ password = None
    /\ snapshot_file = None
    /\ sample = NoFrame
    /\ InitCommon

SpecSet == InitSet /\ [][NextSet]_vars

---------------------------------------------------------------------------
(* persistence.rs: the snapshot task, the log task, and a restart *)

\* command_to_resp
command_to_resp(cmd) ==
    CASE cmd.t = "Set" ->
            Array(<<BulkString(NameSet), BulkString(cmd.key)>>
                  \o (IF cmd.value.t = "String"
                      THEN <<BulkString(cmd.value.s)>> ELSE <<>>)
                  \o (IF cmd.expiry.some
                      THEN <<BulkString(<<"P", "X">>), BulkString(cmd.expiry.v)>>
                      ELSE <<>>))
      [] cmd.t = "HSet" ->
            Array(<<BulkString(NameHSet), BulkString(cmd.key),
                    BulkString(cmd.field), BulkString(cmd.value)>>)
      [] cmd.t = "Delete" ->
            Array(<<BulkString(NameDel), BulkString(cmd.key)>>)

\* create_snapshot: the tick, and data.read().await.clone(); the guard
\* lives to the end of the statement
SnapData ==
    /\ mainPc = "serve"
    /\ snapPc = "idle"
    /\ snaps < MaxSnaps
    /\ snapshot' = [data |-> data, metadata |-> EmptyMap]
    /\ snapPc' = "meta"
    /\ UNCHANGED <<storeVars, engVars, swVars, envVars, connVars, origin, effect,
                   sentCmds, codecVars, temp_file, aof_file, aofPc, aof_rx,
                   stderr, faults, snaps, boots, loaded,
                   locks>>

\* create_snapshot: metadata.read().await.clone(), and both guards dropped
SnapMeta ==
    /\ snapPc = "meta"
    /\ snapshot' = [snapshot EXCEPT !.metadata = metadata]
    /\ snapPc' = "write"
    /\ UNCHANGED <<storeVars, engVars, swVars, envVars, connVars, origin, effect,
                   sentCmds, codecVars, temp_file, aof_file, aofPc, aof_rx,
                   stderr, faults, snaps, boots, loaded,
                   locks>>

\* create_snapshot: File::create and serde_json::to_writer on a BufWriter
SnapWrite ==
    /\ snapPc = "write"
    /\ temp_file' = Some(to_writer(snapshot))
    /\ snapPc' = "rename"
    /\ UNCHANGED <<storeVars, engVars, swVars, envVars, connVars, origin, effect,
                   sentCmds, codecVars, snapshot, aof_file, aofPc, aof_rx,
                   stderr, faults, snaps, boots, loaded,
                   locks>>

\* create_snapshot, when the file system fails: File::create returns the
\* error; or a write fails while to_writer runs, and the error is returned;
\* or a write fails when the BufWriter is dropped, where the error is
\* ignored and to_writer has returned Ok.  run_snapshot_task prints the
\* error returned and waits for the next tick.
SnapWriteFail ==
    /\ snapPc = "write"
    /\ faults < MaxFaults
    /\ faults' = faults + 1
    /\ \/ /\ UNCHANGED temp_file
          /\ snapPc' = "idle"
          /\ stderr' = Append(stderr, "snapshot")
       \/ /\ \E n \in 0..2 : temp_file' = Some(Take(to_writer(snapshot), n))
          /\ \/ /\ snapPc' = "idle"
                /\ stderr' = Append(stderr, "snapshot")
             \/ /\ snapPc' = "rename"
                /\ UNCHANGED stderr
    /\ UNCHANGED <<storeVars, engVars, swVars, envVars, connVars, origin, effect,
                   sentCmds, codecVars, snapshot, aof_file, aofPc, aof_rx,
                   snaps, boots, loaded,
                   locks>>

\* create_snapshot: fs::rename of the temporary file over the snapshot
SnapRename ==
    /\ snapPc = "rename"
    /\ snapPc' = "idle"
    /\ snapshot_file' = temp_file
    /\ temp_file' = None
    /\ snaps' = snaps + 1
    /\ UNCHANGED <<storeVars, engVars, swVars, now, password, mainPc, connVars,
                   origin, effect, sentCmds, codecVars, snapshot, aof_file,
                   aofPc, aof_rx, stderr, faults, boots, loaded,
                   locks>>

\* create_snapshot, when fs::rename fails
SnapRenameFail ==
    /\ snapPc = "rename"
    /\ faults < MaxFaults
    /\ faults' = faults + 1
    /\ snapPc' = "idle"
    /\ stderr' = Append(stderr, "snapshot")
    /\ UNCHANGED <<storeVars, engVars, swVars, envVars, connVars, origin, effect,
                   sentCmds, codecVars, snapshot, temp_file, aof_file, aofPc,
                   aof_rx, snaps, boots, loaded,
                   locks>>

\* run_aof_persistence: the file is opened for append, then subscribe()
AofOpen ==
    /\ mainPc = "serve"
    /\ aofPc = "init"
    /\ aof_file' = IF aof_file.some THEN aof_file ELSE Some(<<>>)
    /\ aof_rx' = Len(cmd_tx)
    /\ aofPc' = "recv"
    /\ UNCHANGED <<storeVars, engVars, swVars, envVars, connVars, origin, effect,
                   sentCmds, codecVars, snapPc, snapshot, temp_file, stderr,
                   faults, snaps, boots, loaded,
                   locks>>

\* run_aof_persistence, when the file cannot be opened: the task returns
AofOpenFail ==
    /\ mainPc = "serve"
    /\ aofPc = "init"
    /\ faults < MaxFaults
    /\ faults' = faults + 1
    /\ stderr' = Append(stderr, "aof open")
    /\ aofPc' = "ended"
    /\ UNCHANGED <<storeVars, engVars, swVars, envVars, connVars, origin, effect,
                   sentCmds, codecVars, snapPc, snapshot, temp_file, aof_file,
                   aof_rx, snaps, boots, loaded,
                   locks>>

\* run_aof_persistence: recv, command_to_resp, serialize_resp, write_all
AofWrite ==
    /\ aofPc = "recv"
    /\ aof_rx < Len(cmd_tx)
    /\ \E r \in {recv(cmd_tx, aof_rx)} :
          IF ~r.ok
          THEN /\ aofPc' = "stopped"
               /\ UNCHANGED <<aof_file, aof_rx>>
          ELSE /\ aof_rx' = aof_rx + 1
               /\ aof_file' = Some(aof_file.v \o serialize_resp(command_to_resp(r.cmd)))
               /\ UNCHANGED aofPc
    /\ UNCHANGED <<storeVars, engVars, swVars, envVars, connVars, origin, effect,
                   sentCmds, codecVars, snapPc, snapshot, temp_file, stderr,
                   faults, snaps, boots, loaded,
                   locks>>

\* a log task that returns at the first write_all that fails
AofWriteFail_ending ==
    /\ aofPc = "recv"
    /\ aof_rx < Len(cmd_tx)
    /\ faults < MaxFaults
    /\ recv(cmd_tx, aof_rx).ok
    /\ aofPc' = "ended"
    /\ faults' = faults + 1
    /\ stderr' = Append(stderr, "aof")
    /\ UNCHANGED <<storeVars, engVars, swVars, envVars, connVars, origin, effect,
                   sentCmds, codecVars, snapPc, snapshot, temp_file, aof_file,
                   aof_rx, snaps, boots, loaded,
                   locks>>

\* run_aof_persistence, when write_all fails: it may have written the
\* first bytes; the error is printed and the loop goes on
AofWriteFail ==
    /\ aofPc = "recv"
    /\ aof_rx < Len(cmd_tx)
    /\ faults < MaxFaults
    /\ \E r \in {recv(cmd_tx, aof_rx)} :
          /\ r.ok
          /\ \E n \in {0, 1} :
                aof_file' = Some(aof_file.v
                                 \o Take(serialize_resp(command_to_resp(r.cmd)), n))
    /\ aof_rx' = aof_rx + 1
    /\ faults' = faults + 1
    /\ stderr' = Append(stderr, "aof")
    /\ UNCHANGED <<storeVars, engVars, swVars, envVars, connVars, origin, effect,
                   sentCmds, codecVars, snapPc, snapshot, temp_file, aofPc,
                   snaps, boots, loaded,
                   locks>>

\* the process is stopped and started again: the files stay, and main runs
\* from Store::new
Restart ==
    /\ mainPc = "serve"
    /\ boots < MaxBoots
    /\ boots' = boots + 1
    /\ data' = EmptyMap
    /\ metadata' = EmptyMap
    /\ cmd_tx' = <<>>
    /\ cmd_rx' = 0
    /\ engPc' = "recv"
    /\ engCmd' = NoCmd
    /\ swPc' = "idle"
    /\ swNow' = 0
    /\ expired_keys' = {}
    /\ mainPc' = "load"
    /\ buffer' = [c \in Conns |-> <<>>]
    /\ connPc' = [c \in Conns |-> "read"]
    /\ authenticated' = [c \in Conns |-> ~password.some]
    /\ loc' = [c \in Conns |-> NoLoc]
    /\ hist' = [c \in Conns |-> <<>>]
    /\ origin' = <<>>
    /\ effect' = <<>>
    /\ snapPc' = "idle"
    /\ snapshot' = NoSnapshot
    /\ aofPc' = "init"
    /\ aof_rx' = 0
    /\ loaded' = NoSnapshot
    /\ UNCHANGED <<now, password, snapshot_file, sentCmds, codecVars, temp_file,
                   aof_file, stderr, faults, snaps, locks>>

ClientSendPersist(c) ==
    /\ sentCmds < MaxPersistCmds
    /\ \E chunk \in PersistWire : ReadAndParse(c, chunk)
    /\ sentCmds' = sentCmds + 1
    /\ UNCHANGED <<codecVars, persistVars>>

ClientSendRead(c) ==
    /\ sentCmds < MaxReadCmds
    /\ \E chunk \in ReadWire : ReadAndParse(c, chunk)
    /\ sentCmds' = sentCmds + 1
    /\ UNCHANGED <<codecVars, persistVars>>

NextRead ==
    \/ LoadFromDisk
    \/ EngineRecv
    \/ EngineMeta
    \/ ClientSendRead(1)
    \/ HSetSend(1)
    \/ DelCheck(1)
    \/ DelSend(1)

SpecRead == Init /\ [][NextRead]_vars

ClientSendErr(c) ==
    /\ sentCmds < MaxErrCmds
    /\ \E chunk \in ErrWire : ReadAndParse(c, chunk)
    /\ sentCmds' = sentCmds + 1
    /\ UNCHANGED <<codecVars, persistVars>>

NextErr ==
    \/ LoadFromDisk
    \/ EngineRecv
    \/ EngineMeta
    \/ ClientSendErr(1)
    \/ HSetSend(1)

SpecErr == InitAuth /\ [][NextErr]_vars

\* a client that sends SET a x again and again
ClientSendLag(c) ==
    /\ sentCmds < MaxBurst
    /\ ReadAndParse(c, serialize_resp(Cmd(<<NameSet, KeyA, ValX>>)))
    /\ sentCmds' = sentCmds + 1
    /\ UNCHANGED <<codecVars, persistVars>>

NextLag ==
    \/ LoadFromDisk
    \/ EngineRecv
    \/ EngineMeta
    \/ ClientSendLag(1)

SpecLag == Init /\ [][NextLag]_vars

\* the tasks of the process with a client, and restarts, on a file system
\* that does not fail
NextRestart ==
    \/ LoadFromDisk
    \/ EngineRecv
    \/ EngineMeta
    \/ ClientSendPersist(1)
    \/ HSetSend(1)
    \/ DelCheck(1)
    \/ DelSend(1)
    \/ SnapData
    \/ SnapMeta
    \/ SnapWrite
    \/ SnapRename
    \/ AofOpen
    \/ AofWrite
    \/ Restart

SpecRestart == Init /\ [][NextRestart]_vars

\* the same on a file system that may fail
NextPersist ==
    \/ NextRestart
    \/ SnapWriteFail
    \/ SnapRenameFail
    \/ AofOpenFail
    \/ AofWriteFail

SpecPersist == Init /\ [][NextPersist]_vars

\* a client that sends SET a y PX 1
ClientSendFail(c) ==
    /\ sentCmds < MaxFailCmds
    /\ ReadAndParse(c, serialize_resp(Cmd(<<NameSet, KeyA, ValY, <<"P", "X">>, <<"1">>>>)))
    /\ sentCmds' = sentCmds + 1
    /\ UNCHANGED <<codecVars, persistVars>>

\* one run of the process on a file system that may fail
NextFail ==
    \/ LoadFromDisk
    \/ EngineRecv
    \/ EngineMeta
    \/ ClientSendFail(1)
    \/ SnapData
    \/ SnapMeta
    \/ SnapWrite
    \/ SnapWriteFail
    \/ SnapRename
    \/ SnapRenameFail
    \/ AofOpen
    \/ AofOpenFail
    \/ AofWrite
    \/ AofWriteFail

SpecFail == Init /\ [][NextFail]_vars

---------------------------------------------------------------------------
(* The codec: a frame is serialized, parsed back, and sent to the first    *)
(* connection once or twice over, in one read or cut in two.               *)

RECURSIVE Copies(_, _)
Copies(bytes, n) == IF n = 0 THEN <<>> ELSE bytes \o Copies(bytes, n - 1)

InitCodec ==
    /\ password = None
    /\ snapshot_file = None
    /\ sample \in Frames
    /\ InitCommon

\* parse_resp on the bytes serialize_resp gives for the sample
RoundTrip ==
    /\ decoded = NoResult
    /\ decoded' = parse_resp(serialize_resp(sample))
    /\ UNCHANGED <<storeVars, engVars, swVars, envVars, connVars, origin, effect,
                   sentCmds, sample, wire, sent, persistVars>>

\* the client serializes what it will send: the sample, the sample twice,
\* or the sample and a PING after it
ClientEncode ==
    /\ wire = <<>>
    /\ \/ \E n \in 1..2 : wire' = Copies(serialize_resp(sample), n)
       \/ wire' = serialize_resp(sample) \o serialize_resp(Cmd(<<NamePing>>))
    /\ UNCHANGED <<storeVars, engVars, swVars, envVars, connVars, origin, effect,
                   sentCmds, sample, decoded, sent, persistVars>>

\* the connection reads the next bytes of wire: all of them, or a first
\* part and then the rest
ClientDeliver(c) ==
    /\ sent < Len(wire)
    /\ sentCmds < 2
    /\ \E n \in 1..(Len(wire) - sent) :
          /\ sentCmds = 1 => n = Len(wire) - sent
          /\ ReadAndParse(c, SubSeq(wire, sent + 1, sent + n))
          /\ sent' = sent + n
    /\ sentCmds' = sentCmds + 1
    /\ UNCHANGED <<sample, wire, decoded, persistVars>>

NextCodec ==
    \/ LoadFromDisk
    \/ RoundTrip
    \/ ClientEncode
    \/ ClientDeliver(1)
    \/ ParseFrame(1)
    \/ ReadEof(1)

SpecCodec == InitCodec /\ [][NextCodec]_vars

---------------------------------------------------------------------------
(* What the properties speak of *)

Keys == {KeyA, KeyB}

\* process_command: command_name, empty for a frame that has none
CommandName(frame) ==
    IF frame.t = "Array" /\ frame.a # <<>> /\ to_string(Head(frame.a)).ok
    THEN to_uppercase(to_string(Head(frame.a)).s)
    ELSE <<>>

\* process_command: args
NumArgs(frame) == Len(frame.a) - 1
Arg(frame, i) == to_string_or_default(frame.a[i + 1])

\* the commands the i-th frame of connection c sent on the channel
EventsOf(c, i) == {j \in 1..Len(origin) : origin[j] = <<c, i>>}

\* no connection but c has sent a command on the channel
OnlyWriter(c) == \A j \in 1..Len(origin) : origin[j][1] = c

\* no key was ever given an expiry
NoExpiry ==
    /\ snapshot_file = None
    /\ \A j \in 1..Len(cmd_tx) : cmd_tx[j].t = "Set" => ~cmd_tx[j].expiry.some

\* key k was never given an expiry
NeverExpires(k) ==
    /\ snapshot_file.some => ~(k \in DOMAIN from_slice(snapshot_file.v).v.metadata)
    /\ \A j \in 1..Len(cmd_tx) :
          ~(cmd_tx[j].t = "Set" /\ cmd_tx[j].key = k /\ cmd_tx[j].expiry.some)

\* the data mapping process_commands started from
Loaded ==
    IF mainPc = "serve" /\ snapshot_file.some
    THEN from_slice(snapshot_file.v).v.data
    ELSE EmptyMap

RECURSIVE Replay(_, _, _)
\* the first n commands of tx applied to d one by one, as process_commands does
Replay(d, tx, n) ==
    IF n = 0 THEN d ELSE apply_data(Replay(d, tx, n - 1), tx[n])

RECURSIVE ReplayMeta(_, _, _, _)
\* the metadata side of the first n commands of tx, applied to m at time
ReplayMeta(m, tx, n, time) ==
    IF n = 0 THEN m ELSE apply_meta(ReplayMeta(m, tx, n - 1, time), tx[n], time)

\* steps of process_commands, clean_expired, load_from_disk
EngineMoved == <<cmd_rx, engPc>>' # <<cmd_rx, engPc>>
SweeperMoved == swPc' # swPc
LoaderMoved == mainPc' # mainPc
MappingsWritten == data' # data \/ metadata' # metadata

\* connection c answered a frame in this step; LastReply is that answer
Answered(c) == Len(hist'[c]) = Len(hist[c]) + 1
LastFrame(c) == hist'[c][Len(hist'[c])].cmd
LastReply(c) == hist'[c][Len(hist'[c])].reply

---------------------------------------------------------------------------
(* C1: who writes the two mappings *)

\* C1, as stated: every step that changes the data or the metadata mapping
\* is a step of process_commands.
C1_OnlyConsumerWrites == [][MappingsWritten => EngineMoved]_vars

\* C1, amended: every step that changes the data or the metadata mapping is
\* a step of process_commands, of clean_expired or of load_from_disk; no
\* step of a command handler changes either mapping.
C1_MappingWriters ==
    [][MappingsWritten => EngineMoved \/ SweeperMoved \/ LoaderMoved]_vars

\* C1: the key the snapshot brought is gone from both mappings, and no
\* command on it was ever sent: clean_expired removed it.
C1_SweeperWrote ==
    /\ snapshot_file.some
    /\ mainPc = "serve"
    /\ ~(KeyB \in DOMAIN data)
    /\ ~(KeyB \in DOMAIN metadata)
    /\ \A j \in 1..Len(cmd_tx) : cmd_tx[j].key # KeyB

---------------------------------------------------------------------------
(* C2: the order process_commands applies the commands in *)

\* C2: for every key that never had an expiry, the value in the data
\* mapping is the one the commands taken so far give when applied one by
\* one in the order they were sent on the channel.
C2_PublishOrder ==
    \A k \in Keys :
        NeverExpires(k) => get(data, k) = get(Replay(Loaded, cmd_tx, cmd_rx), k)

\* C2: two connections sent commands on the same key, all are applied, and
\* the second one sent had passed its check before the first was applied.
C2_TwoWriters ==
    /\ cmd_rx = Len(cmd_tx)
    /\ engPc = "recv"
    /\ NeverExpires(KeyA)
    /\ \E i, j \in 1..Len(cmd_tx) :
          /\ i < j
          /\ cmd_tx[i].key = KeyA
          /\ cmd_tx[j].key = KeyA
          /\ origin[i][1] # origin[j][1]
          /\ effect[j] = "discarded"

---------------------------------------------------------------------------
(* C3: SET then GET on one connection *)

\* C3: on a connection, when SET k v was answered OK and the next frame is
\* GET k, no other connection sent a command and no key ever had an expiry,
\* the answer to the GET is the bulk string v.
C3_ReadYourWrite ==
    \A c \in Conns : \A i \in 1..(Len(hist[c]) - 1) :
        ( /\ CommandName(hist[c][i].cmd) = NameSet
          /\ NumArgs(hist[c][i].cmd) = 2
          /\ hist[c][i].reply = SimpleString(MsgOk)
          /\ CommandName(hist[c][i + 1].cmd) = NameGet
          /\ NumArgs(hist[c][i + 1].cmd) = 1
          /\ Arg(hist[c][i + 1].cmd, 1) = Arg(hist[c][i].cmd, 1)
          /\ OnlyWriter(c)
          /\ NoExpiry )
        => hist[c][i + 1].reply = BulkString(Arg(hist[c][i].cmd, 2))

---------------------------------------------------------------------------
(* C4: the answer of HSET *)

\* C4: when only HSET commands were sent, all by one connection, an HSET
\* is answered 1 exactly when applying it created the field, and 0 exactly
\* when applying it overwrote the field.
C4_HSetReply ==
    \A c \in Conns : \A i \in 1..Len(hist[c]) :
        ( /\ CommandName(hist[c][i].cmd) = NameHSet
          /\ hist[c][i].reply.t = "Integer"
          /\ OnlyWriter(c)
          /\ snapshot_file = None
          /\ \A j \in 1..Len(cmd_tx) : cmd_tx[j].t = "HSet" )
        => \A j \in EventsOf(c, i) :
              j <= Len(effect) =>
                  /\ hist[c][i].reply = Integer(1) <=> effect[j] = "created"
                  /\ hist[c][i].reply = Integer(0) <=> effect[j] = "overwrote"

---------------------------------------------------------------------------
(* C5: the answer of DEL *)

\* C5: when one connection sent all the commands, no key ever had an
\* expiry and the commands of a DEL are all applied, the DEL's answer is
\* the number of keys its commands removed from the data mapping.
C5_DelCount ==
    \A c \in Conns : \A i \in 1..Len(hist[c]) :
        ( /\ CommandName(hist[c][i].cmd) = NameDel
          /\ hist[c][i].reply.t = "Integer"
          /\ OnlyWriter(c)
          /\ NoExpiry
          /\ \A j \in EventsOf(c, i) : j <= Len(effect) )
        => hist[c][i].reply.i =
               Cardinality({j \in EventsOf(c, i) : effect[j] = "removed"})

---------------------------------------------------------------------------
(* C6: the commands a frame sends on the channel *)

\* C6, as stated: every SET answered OK, every HSET answered with an
\* integer and every DEL answered with a positive integer sent exactly one
\* command on the channel.
C6_OneEventPerCommand ==
    \A c \in Conns : \A i \in 1..Len(hist[c]) :
        ( \/ /\ CommandName(hist[c][i].cmd) = NameSet
              /\ hist[c][i].reply = SimpleString(MsgOk)
          \/ /\ CommandName(hist[c][i].cmd) = NameHSet
              /\ hist[c][i].reply.t = "Integer"
          \/ /\ CommandName(hist[c][i].cmd) = NameDel
              /\ hist[c][i].reply.t = "Integer"
              /\ hist[c][i].reply.i >= 1 )
        => Cardinality(EventsOf(c, i)) = 1

\* C6, amended: a SET answered OK and an HSET answered with an integer
\* sent exactly one command on the channel; a DEL answered n sent n Delete
\* commands, one for each argument it found present; a frame with any
\* other answer sent none.
C6_EventsPerCommand ==
    \A c \in Conns : \A i \in 1..Len(hist[c]) :
        Cardinality(EventsOf(c, i)) =
            IF /\ CommandName(hist[c][i].cmd) = NameSet
               /\ hist[c][i].reply = SimpleString(MsgOk)
            THEN 1
            ELSE IF /\ CommandName(hist[c][i].cmd) = NameHSet
                    /\ hist[c][i].reply.t = "Integer"
            THEN 1
            ELSE IF /\ CommandName(hist[c][i].cmd) = NameDel
                    /\ hist[c][i].reply.t = "Integer"
            THEN hist[c][i].reply.i
            ELSE 0

\* C6: a DEL was answered 2 and sent two commands, and process_commands
\* has not taken the last of them yet.
C6_AnsweredBeforeApplied ==
    \E c \in Conns : \E i \in 1..Len(hist[c]) :
        /\ CommandName(hist[c][i].cmd) = NameDel
        /\ hist[c][i].reply = Integer(2)
        /\ Cardinality(EventsOf(c, i)) = 2
        /\ \E j \in EventsOf(c, i) : j > cmd_rx

---------------------------------------------------------------------------
(* C7: requirepass *)

\* C7: with a password configured, a step of a connection that is not
\* authenticated starts no store call; a command other than AUTH is
\* answered with the authentication-required error, sends nothing on the
\* channel and leaves the connection unauthenticated; AUTH with another
\* password is answered with an error and leaves it unauthenticated; AUTH
\* with the password is answered OK and authenticates it.  An authenticated
\* connection is never answered with the authentication-required error.
C7_AuthRequired ==
    [][\A c \in Conns :
          /\ (password.some /\ ~authenticated[c]) =>
                /\ connPc'[c] \in {"read", "parse", "closed"}
                /\ Answered(c) =>
                      IF CommandName(LastFrame(c)) # NameAuth
                      THEN /\ LastReply(c) = Error(MsgNoAuth)
                           /\ storeVars' = storeVars
                           /\ ~authenticated'[c]
                      ELSE IF /\ NumArgs(LastFrame(c)) = 1
                              /\ Arg(LastFrame(c), 1) = password.v
                      THEN /\ LastReply(c) = SimpleString(MsgOk)
                           /\ authenticated'[c]
                      ELSE /\ LastReply(c).t = "Error"
                           /\ ~authenticated'[c]
          /\ (password.some /\ authenticated[c] /\ Answered(c)) =>
                LastReply(c) # Error(MsgNoAuth)
      ]_vars

\* C7: a connection was refused a SET, then refused AUTH with a wrong
\* password, then answered OK to AUTH with the password, and then its SET
\* was answered OK.
C7_RefusedThenServed ==
    /\ password.some
    /\ \E c \in Conns :
          /\ Len(hist[c]) = 4
          /\ CommandName(hist[c][1].cmd) = NameSet
          /\ hist[c][1].reply = Error(MsgNoAuth)
          /\ CommandName(hist[c][2].cmd) = NameAuth
          /\ hist[c][2].reply = Error(MsgInvalidPassword)
          /\ CommandName(hist[c][3].cmd) = NameAuth
          /\ hist[c][3].reply = SimpleString(MsgOk)
          /\ CommandName(hist[c][4].cmd) = NameSet
          /\ hist[c][4].reply = SimpleString(MsgOk)
          /\ Len(cmd_tx) = 1

---------------------------------------------------------------------------
(* C8: the session's authenticated flag *)

\* C8: an authenticated connection stays authenticated at every step; the
\* flag of a connection changes only in the step where that connection's
\* own AUTH is answered OK; without a password every connection is
\* authenticated from the start and every AUTH is answered with the
\* not-needed error.
C8_SessionAuth ==
    [][\A c \in Conns :
          /\ authenticated[c] => authenticated'[c]
          /\ authenticated'[c] # authenticated[c] =>
                /\ Answered(c)
                /\ CommandName(LastFrame(c)) = NameAuth
                /\ LastReply(c) = SimpleString(MsgOk)
          /\ ~password.some =>
                /\ authenticated[c]
                /\ (Answered(c) /\ CommandName(LastFrame(c)) = NameAuth) =>
                      LastReply(c) = Error(MsgAuthNotNeeded)
      ]_vars

\* C8: the first connection authenticated and then sent AUTH with a wrong
\* password: it is still authenticated, and the second connection, which
\* sent a command of its own, is not.
C8_StillAuthenticated ==
    /\ password.some
    /\ authenticated[1]
    /\ ~authenticated[2]
    /\ Len(hist[1]) >= 2
    /\ CommandName(hist[1][Len(hist[1])].cmd) = NameAuth
    /\ hist[1][Len(hist[1])].reply = Error(MsgInvalidPassword)
    /\ Len(hist[2]) >= 1

---------------------------------------------------------------------------
(* C9: a frame that arrives in two reads *)

\* C9: when the bytes of one frame that parses back to itself are read in
\* two parts, after the first part the connection is open, waits for more
\* bytes and keeps the part in its buffer; once all the bytes are read the
\* connection has processed that frame and its buffer is empty.
C9_Resumable ==
    [][( /\ wire = serialize_resp(sample)
         /\ parse_resp(wire) = POk(<<>>, sample)
         /\ sentCmds' = sentCmds + 1 )
       => /\ sent' < Len(wire) =>
                /\ connPc'[1] = "read"
                /\ buffer'[1] = Take(wire, sent')
                /\ hist'[1] = <<>>
          /\ sent' = Len(wire) =>
                /\ Len(hist'[1]) = 1
                /\ hist'[1][1].cmd = sample
                /\ buffer'[1] = <<>>
      ]_vars

---------------------------------------------------------------------------
(* C10: serialize_resp then parse_resp *)

\* C10: parse_resp on the bytes serialize_resp gives for a frame returns
\* that frame and leaves no byte.
C10_RoundTrip == decoded # NoResult => decoded = POk(<<>>, sample)

---------------------------------------------------------------------------
(* C11: when a key with an expiry leaves the reads *)

\* C11: a key that is in the data mapping and has an expiry recorded leaves
\* the data mapping, other than by a step of process_commands, only in a
\* step of clean_expired whose `now` is at or after that expiry.
C11_AbsentOnlyAfterExpiry ==
    [][\A k \in Keys :
          ( /\ k \in DOMAIN data
            /\ ~(k \in DOMAIN data')
            /\ k \in DOMAIN metadata
            /\ metadata[k].expiry.some
            /\ ~EngineMoved )
          => /\ SweeperMoved
             /\ swNow >= metadata[k].expiry.v
      ]_vars

---------------------------------------------------------------------------
(* C12: SET and the expiry it records *)

\* C12: a SET answered OK sends a Set command with the key, the string
\* value, and an expiry exactly when the frame carries a modifier; when
\* process_commands takes a Set command the data mapping holds the value
\* for the key; when it finishes a Set command the metadata mapping holds
\* an expiry for the key if the command carries one, and no entry for the
\* key if it carries none.
C12_SetRecordsExpiry ==
    [][/\ \A c \in Conns :
             ( /\ Answered(c)
               /\ CommandName(LastFrame(c)) = NameSet
               /\ LastReply(c) = SimpleString(MsgOk) )
             => /\ Len(cmd_tx') = Len(cmd_tx) + 1
                /\ cmd_tx'[Len(cmd_tx')].t = "Set"
                /\ cmd_tx'[Len(cmd_tx')].key = Arg(LastFrame(c), 1)
                /\ cmd_tx'[Len(cmd_tx')].value = VString(Arg(LastFrame(c), 2))
                /\ cmd_tx'[Len(cmd_tx')].expiry.some <=> NumArgs(LastFrame(c)) = 4
       /\ (engPc = "recv" /\ EngineMoved /\ engCmd'.t = "Set")
             => get(data', engCmd'.key) = Some(engCmd'.value)
       /\ (engPc = "meta" /\ EngineMoved /\ engCmd.t = "Set")
             => IF engCmd.expiry.some
                THEN /\ engCmd.key \in DOMAIN metadata'
                     /\ metadata'[engCmd.key].expiry.some
                ELSE ~(engCmd.key \in DOMAIN metadata')
      ]_vars


---------------------------------------------------------------------------
(* C13: what a snapshot holds *)

\* C13, as stated: the data and metadata a snapshot cycle has copied are
\* the two mappings as they are after process_commands applied, to both of
\* them, the first n published commands, for one n.
C13_ConsistentSnapshot ==
    snapPc \in {"write", "rename"} =>
        \E n \in 0..Len(cmd_tx) : \E time \in 0..now :
            /\ snapshot.data = Replay(loaded.data, cmd_tx, n)
            /\ snapshot.metadata = ReplayMeta(loaded.metadata, cmd_tx, n, time)

---------------------------------------------------------------------------
(* C14: the snapshot file is replaced as a whole *)

\* C14, as stated: the snapshot file is absent or holds one whole
\* serialized snapshot.
C14_WholeSnapshotFile ==
    snapshot_file.some => from_slice(snapshot_file.v).some

---------------------------------------------------------------------------
(* C15: a restart reproduces the snapshot *)

\* a step of create_snapshot that renames a wholly written temporary file
SnapshotInstalled ==
    /\ snapPc = "rename"
    /\ snapshot_file' # snapshot_file
    /\ from_slice(temp_file.v).some

\* C15: a snapshot cycle that wrote its file leaves in the snapshot file
\* the pair of mappings it copied; load_from_disk replaces both mappings by
\* what the snapshot file holds, leaves them empty when there is no file,
\* and does not touch the log.
C15_RestartReproducesSnapshot ==
    [][ /\ SnapshotInstalled => from_slice(snapshot_file'.v) = Some(snapshot)
        /\ (mainPc = "load" /\ LoaderMoved) =>
              /\ aof_file' = aof_file
              /\ ~snapshot_file.some =>
                    data' = EmptyMap /\ metadata' = EmptyMap
              /\ (snapshot_file.some /\ from_slice(snapshot_file.v).some) =>
                    /\ data' = from_slice(snapshot_file.v).v.data
                    /\ metadata' = from_slice(snapshot_file.v).v.metadata
      ]_vars

\* the bytes of cmd are in the log
Logged(cmd) ==
    /\ aof_file.some
    /\ \E i \in 1..Len(aof_file.v) : \E j \in i..Len(aof_file.v) :
          SubSeq(aof_file.v, i, j) = serialize_resp(command_to_resp(cmd))

\* C15, witness: the process was restarted after a snapshot cycle of the
\* run before; the mappings are the ones of that snapshot, with the expiry
\* of key a, and the HSET of key b that is in the log is not in them.
C15_RestartedFromSnapshot ==
    /\ boots = 1
    /\ mainPc = "serve"
    /\ cmd_tx = <<>>
    /\ snaps = 1
    /\ snapshot_file.some
    /\ from_slice(snapshot_file.v) = Some([data |-> data, metadata |-> metadata])
    /\ KeyA \in DOMAIN data
    /\ KeyA \in DOMAIN metadata
    /\ ~(KeyB \in DOMAIN data)
    /\ Logged(CmdHSet(KeyB, FieldF, ValX))

---------------------------------------------------------------------------
(* C16: a subscriber that falls behind *)

\* C16, as stated: the consumer keeps running when it has fallen behind
\* by more than the capacity of the channel.
C16_LaggedKeepsRunning == engPc # "stopped"

---------------------------------------------------------------------------
(* C17: what the log holds *)

RECURSIVE LogOf(_, _)
\* the log entries of the first n commands of tx, one after the other
LogOf(tx, n) ==
    IF n = 0 THEN <<>>
    ELSE LogOf(tx, n - 1) \o serialize_resp(command_to_resp(tx[n]))

\* C17, as stated: in the first run of the process the log holds, in the
\* order they were published, one entry for each command published so far
\* up to the one the writer is at, and nothing else.
C17_LogIsPublishedSequence ==
    (boots = 0 /\ aof_file.some) =>
        \E n \in 0..Len(cmd_tx) : aof_file.v = LogOf(cmd_tx, n)

---------------------------------------------------------------------------
(* C18: several frames in one read *)

RECURSIVE Processed(_, _)
\* the bytes of the first n frames connection c has answered
Processed(h, n) ==
    IF n = 0 THEN <<>> ELSE Processed(h, n - 1) \o serialize_resp(h[n].cmd)

\* C18: the frames a connection has answered, in the order of the answers
\* and each with one answer, followed by the bytes still in its buffer, are
\* the bytes it has read, in the order they arrived; the first answer is
\* to the first frame sent and the second to the second.
C18_Pipelining ==
    /\ Processed(hist[1], Len(hist[1])) \o buffer[1] = Take(wire, sent)
    /\ Len(hist[1]) <= 2
    /\ Len(hist[1]) >= 1 => hist[1][1].cmd = sample
    /\ Len(hist[1]) = 2 =>
          wire = serialize_resp(sample) \o serialize_resp(hist[1][2].cmd)

\* C18, witness: one read brought two different frames; both were answered,
\* the second, a PING, after the first, and the buffer is empty.
C18_TwoFramesOneRead ==
    /\ sentCmds = 1
    /\ sent = Len(wire)
    /\ Len(hist[1]) = 2
    /\ hist[1][1].cmd = sample
    /\ hist[1][1].cmd # hist[1][2].cmd
    /\ hist[1][2] = [cmd |-> Cmd(<<NamePing>>), reply |-> SimpleString(MsgPong)]
    /\ buffer[1] = <<>>
    /\ connPc[1] = "read"

---------------------------------------------------------------------------
(* C19: commands that are answered with an error *)

\* C19: a step in which a connection answers a frame with an error sends
\* no command on the channel and writes neither mapping, no earlier step
\* sent a command for that frame, and the connection is left reading or
\* parsing, with the bytes after the frame in its buffer.
C19_ErrorChangesNothing ==
    [][ \A c \in Conns :
          (Answered(c) /\ LastReply(c).t = "Error") =>
              /\ cmd_tx' = cmd_tx
              /\ data' = data
              /\ metadata' = metadata
              /\ EventsOf(c, Len(hist'[c])) = {}
              /\ connPc'[c] \in {"read", "parse"}
              /\ connPc'[c] = "read" <=> buffer'[c] = <<>>
      ]_vars

\* C19, witness: an HSET was refused for the type of the stored value, and
\* the SET sent next on the same connection was answered OK and published.
C19_ServedAfterError ==
    /\ Len(hist[1]) = 3
    /\ hist[1][2].cmd = Cmd(<<NameHSet, KeyA, FieldF, ValX>>)
    /\ hist[1][2].reply = Error(MsgWrongType)
    /\ hist[1][3].cmd = Cmd(<<NameSet, KeyA, ValX>>)
    /\ hist[1][3].reply = SimpleString(MsgOk)
    /\ EventsOf(1, 2) = {}
    /\ EventsOf(1, 3) # {}

---------------------------------------------------------------------------
(* C20: failures of the snapshot cycle and of the log writes *)

\* the error printed in this step
Reported == stderr'[Len(stderr')]

---------------------------------------------------------------------------
(* C21: commands that only read *)

\* the keys a KEYS reply lists
KeysListed(reply) == { reply.a[i] : i \in 1..Len(reply.a) }

\* C21: a step in which a connection answers a GET, a KEYS or a PING, or
\* answers an HSET with an error, or finds in a DEL that a key is not
\* there, sends nothing on the channel and leaves both mappings as they
\* are; no command was sent for a GET, KEYS or PING frame; and the answer
\* to `KEYS *` lists each key of the data mapping of that moment once, and
\* nothing else.
C21_ReadsChangeNothing ==
    [][ \A c \in Conns :
          /\ (Answered(c) /\ CommandName(LastFrame(c)) \in {NameGet, NameKeys, NamePing}) =>
                /\ UNCHANGED storeVars
                /\ EventsOf(c, Len(hist'[c])) = {}
          /\ (Answered(c) /\ CommandName(LastFrame(c)) = NameHSet
                          /\ LastReply(c).t = "Error") =>
                /\ UNCHANGED storeVars
                /\ EventsOf(c, Len(hist'[c])) = {}
          /\ (connPc[c] = "delCheck" /\ loc'[c] # loc[c] /\ connPc'[c] # "delSend") =>
                UNCHANGED storeVars
          /\ (Answered(c) /\ LastFrame(c) = Cmd(<<NameKeys, <<"*">>>>)) =>
                /\ LastReply(c).t = "Array"
                /\ KeysListed(LastReply(c)) = { BulkString(k) : k \in DOMAIN data }
                /\ Len(LastReply(c).a) = Cardinality(DOMAIN data)
      ]_vars

\* C21, witness: with keys a and b in the data mapping, the connection was
\* answered both keys by `KEYS *` and the value of a by GET, and the only
\* command on the channel is the SET it sent first.
C21_KeysAndGetAnswered ==
    /\ DOMAIN data = {KeyA, KeyB}
    /\ Len(hist[1]) = 3
    /\ hist[1][1].cmd = Cmd(<<NameSet, KeyA, ValX>>)
    /\ hist[1][2].cmd = Cmd(<<NameKeys, <<"*">>>>)
    /\ hist[1][2].reply = Array(<<BulkString(KeyB), BulkString(KeyA)>>)
    /\ hist[1][3].cmd = Cmd(<<NameGet, KeyA>>)
    /\ hist[1][3].reply = BulkString(ValX)
    /\ Len(cmd_tx) = 1

---------------------------------------------------------------------------
(* C22: what a sweep removes *)

\* C22, as stated: a step of clean_expired takes a key out of the data
\* mapping only if the metadata mapping holds for it, in that step, an
\* expiry at or before the `now` of the pass.
C22_SweepRemovesExpiredOnly ==
    [][\A k \in Keys :
          ( /\ swPc = "remove"
            /\ SweeperMoved
            /\ k \in DOMAIN data
            /\ ~(k \in DOMAIN data') )
          => /\ k \in DOMAIN metadata
             /\ metadata[k].expiry.some
             /\ metadata[k].expiry.v <= swNow
      ]_vars

---------------------------------------------------------------------------
(* C23: the keys of the two mappings *)

\* C23, as stated: when process_commands is at its recv and clean_expired
\* is not in a pass, every key of the metadata mapping is a key of the data
\* mapping.
C23_MetadataWithinData ==
    (engPc = "recv" /\ swPc = "idle") => DOMAIN metadata \subseteq DOMAIN data

---------------------------------------------------------------------------
(* C24: an HSET that was answered *)

\* C24, as stated: when process_commands applies an HSet command, the key
\* then holds a hash in which the field has the value of the command.
C24_HSetTakesEffect ==
    [][ (engPc = "recv" /\ EngineMoved /\ engCmd'.t = "HSet") =>
          /\ engCmd'.key \in DOMAIN data'
          /\ data'[engCmd'.key].t = "Hash"
          /\ engCmd'.field \in DOMAIN data'[engCmd'.key].h
          /\ data'[engCmd'.key].h[engCmd'.field] = engCmd'.value
      ]_vars

---------------------------------------------------------------------------
(* The RwLocks of Store, lock by lock: every read().await and write().await
   of store.rs, persistence.rs and main.rs as a request that waits its turn.
   tokio's RwLock serves its waiters in the order they arrived: a reader that
   arrives behind a waiting writer waits too. *)

MaxLockCmds == 2

EngineTask == <<"process_commands", 0>>
SweeperTask == <<"clean_expired", 0>>
SnapshotTask == <<"create_snapshot", 0>>
HandlerTask(c) == <<"handle_connection", c>>

Tasks == {EngineTask, SweeperTask, SnapshotTask} \cup { HandlerTask(c) : c \in Conns }

Request(task, mode) == [task |-> task, mode |-> mode]

\* RwLock::read / RwLock::write, polled first: the task joins the waiters
acquire(lk, req) == [lk EXCEPT !.queue = Append(@, req)]

\* the future of read / write is ready: req is the oldest waiter, and no
\* guard alive excludes it
granted(lk, req) ==
    /\ lk.queue # <<>>
    /\ Head(lk.queue) = req
    /\ IF req.mode = "write" THEN lk.held = {}
       ELSE \A h \in lk.held : h.mode = "read"

\* the guard is handed to the task
grant(lk, req) == [held |-> lk.held \cup {req}, queue |-> Tail(lk.queue)]

\* the guard is dropped
release(lk, req) == [lk EXCEPT !.held = @ \ {req}]

Waiting(l) == { locks[l].queue[i] : i \in 1..Len(locks[l].queue) }

\* what the client may send in a run that follows the locks
LockSetMenu ==
    { Cmd(<<NameSet, KeyA, ValY, <<"P", "X">>, <<"1">>>>),
      Cmd(<<NameSet, KeyA, ValX, <<"e", "x">>, U64Max>>),
      Cmd(<<NameDel, KeyA>>) }

LockSetWire == { serialize_resp(frame) : frame \in { f \in LockSetMenu : CommandName(f) = NameSet } }

LockGetWire == { serialize_resp(Cmd(<<NameGet, KeyA>>)) }

\* process_commands: rx.recv().await, and data.write() polled
LockEngineRecv ==
    /\ engPc = "recv"
    /\ cmd_rx < Len(cmd_tx)
    /\ \E r \in {recv(cmd_tx, cmd_rx)} :
          IF r.ok
          THEN /\ cmd_rx' = cmd_rx + 1
               /\ engCmd' = r.cmd
               /\ engPc' = "dataWait"
               /\ locks' = [locks EXCEPT !["data"] =
                              acquire(@, Request(EngineTask, "write"))]
          ELSE /\ engPc' = "stopped"
               /\ UNCHANGED <<cmd_rx, engCmd, locks>>
    /\ UNCHANGED <<storeVars, swVars, envVars, connVars, origin, effect,
                   sentCmds, codecVars, snapPc, snapshot, temp_file, aof_file,
                   aofPc, aof_rx, stderr, faults, snaps, boots, loaded>>

\* process_commands: the section under the data write lock; Set and Delete
\* drop the guard and poll metadata.write()
LockEngineData ==
    /\ engPc = "dataWait"
    /\ granted(locks["data"], Request(EngineTask, "write"))
    /\ data' = apply_data(data, engCmd)
    /\ effect' = Append(effect, effect_of(data, engCmd))
    /\ engPc' = IF engCmd.t = "HSet" THEN "recv" ELSE "metaWait"
    /\ locks' = [locks EXCEPT
                   !["data"] = release(grant(@, Request(EngineTask, "write")),
                                       Request(EngineTask, "write")),
                   !["metadata"] = IF engCmd.t = "HSet" THEN @
                                   ELSE acquire(@, Request(EngineTask, "write"))]
    /\ UNCHANGED <<metadata, cmd_tx, cmd_rx, engCmd, swVars, envVars, connVars,
                   origin, sentCmds, codecVars, snapPc, snapshot, temp_file,
                   aof_file, aofPc, aof_rx, stderr, faults, snaps, boots,
                   loaded>>

\* process_commands: the section under the metadata write lock; when
\* SystemTime::now() + duration panics the guard is dropped by the unwinding
LockEngineMeta ==
    /\ engPc = "metaWait"
    /\ granted(locks["metadata"], Request(EngineTask, "write"))
    /\ IF engCmd.t = "Set" /\ engCmd.expiry.some
          /\ ~checked_add(now, engCmd.expiry.v).some
       THEN /\ engPc' = "panicked"
            /\ metadata' = metadata
       ELSE /\ engPc' = "recv"
            /\ metadata' = apply_meta(metadata, engCmd, now)
    /\ engCmd' = NoCmd
    /\ locks' = [locks EXCEPT
                   !["metadata"] = release(grant(@, Request(EngineTask, "write")),
                                           Request(EngineTask, "write"))]
    /\ UNCHANGED <<data, cmd_tx, cmd_rx, swVars, envVars, connVars, origin,
                   effect, sentCmds, codecVars, snapPc, snapshot, temp_file,
                   aof_file, aofPc, aof_rx, stderr, faults, snaps, boots,
                   loaded>>

\* clean_expired: now, and metadata.read() polled
LockSweepStart ==
    /\ mainPc = "serve"
    /\ swPc = "idle"
    /\ swNow' = now
    /\ swPc' = "scanWait"
    /\ locks' = [locks EXCEPT !["metadata"] =
                   acquire(@, Request(SweeperTask, "read"))]
    /\ UNCHANGED <<storeVars, engVars, expired_keys, envVars, connVars, origin,
                   effect, sentCmds, codecVars, snapPc, snapshot, temp_file,
                   aof_file, aofPc, aof_rx, stderr, faults, snaps, boots,
                   loaded>>

\* clean_expired: the scan, drop(meta_lock), and data.write() polled when a
\* key was collected
LockSweepScan ==
    /\ swPc = "scanWait"
    /\ granted(locks["metadata"], Request(SweeperTask, "read"))
    /\ expired_keys' = collect_expired(metadata, swNow)
    /\ swPc' = IF expired_keys' = {} THEN "idle" ELSE "dataWait"
    /\ locks' = [locks EXCEPT
                   !["metadata"] = release(grant(@, Request(SweeperTask, "read")),
                                           Request(SweeperTask, "read")),
                   !["data"] = IF expired_keys' = {} THEN @
                               ELSE acquire(@, Request(SweeperTask, "write"))]
    /\ UNCHANGED <<storeVars, engVars, swNow, envVars, connVars, origin, effect,
                   sentCmds, codecVars, snapPc, snapshot, temp_file, aof_file,
                   aofPc, aof_rx, stderr, faults, snaps, boots, loaded>>

\* clean_expired: the data write guard is handed over and kept, and
\* metadata.write() is polled
LockSweepData ==
    /\ swPc = "dataWait"
    /\ granted(locks["data"], Request(SweeperTask, "write"))
    /\ swPc' = "metaWait"
    /\ locks' = [locks EXCEPT
                   !["data"] = grant(@, Request(SweeperTask, "write")),
                   !["metadata"] = acquire(@, Request(SweeperTask, "write"))]
    /\ UNCHANGED <<storeVars, engVars, swNow, expired_keys, envVars, connVars,
                   origin, effect, sentCmds, codecVars, snapPc, snapshot,
                   temp_file, aof_file, aofPc, aof_rx, stderr, faults, snaps,
                   boots, loaded>>

\* clean_expired: the removals under both write guards, dropped at the end
LockSweepRemove ==
    /\ swPc = "metaWait"
    /\ granted(locks["metadata"], Request(SweeperTask, "write"))
    /\ data' = RemoveAll(data, expired_keys)
    /\ metadata' = RemoveAll(metadata, expired_keys)
    /\ expired_keys' = {}
    /\ swPc' = "idle"
    /\ locks' = [locks EXCEPT
                   !["metadata"] = release(grant(@, Request(SweeperTask, "write")),
                                           Request(SweeperTask, "write")),
                   !["data"] = release(@, Request(SweeperTask, "write"))]
    /\ UNCHANGED <<cmd_tx, engVars, swNow, envVars, connVars, origin, effect,
                   sentCmds, codecVars, snapPc, snapshot, temp_file, aof_file,
                   aofPc, aof_rx, stderr, faults, snaps, boots, loaded>>

\* create_snapshot: the tick, and data.read() polled
LockSnapStart ==
    /\ mainPc = "serve"
    /\ snapPc = "idle"
    /\ snaps < MaxSnaps
    /\ snapPc' = "dataWait"
    /\ locks' = [locks EXCEPT !["data"] =
                   acquire(@, Request(SnapshotTask, "read"))]
    /\ UNCHANGED <<storeVars, engVars, swVars, envVars, connVars, origin, effect,
                   sentCmds, codecVars, snapshot, temp_file, aof_file, aofPc,
                   aof_rx, stderr, faults, snaps, boots, loaded>>

\* create_snapshot: data cloned under the read guard, which lives to the
\* end of the statement, and metadata.read() polled
LockSnapData ==
    /\ snapPc = "dataWait"
    /\ granted(locks["data"], Request(SnapshotTask, "read"))
    /\ snapshot' = [data |-> data, metadata |-> EmptyMap]
    /\ snapPc' = "metaWait"
    /\ locks' = [locks EXCEPT
                   !["data"] = grant(@, Request(SnapshotTask, "read")),
                   !["metadata"] = acquire(@, Request(SnapshotTask, "read"))]
    /\ UNCHANGED <<storeVars, engVars, swVars, envVars, connVars, origin, effect,
                   sentCmds, codecVars, temp_file, aof_file, aofPc, aof_rx,
                   stderr, faults, snaps, boots, loaded>>

\* create_snapshot: metadata cloned, and both read guards dropped
LockSnapMeta ==
    /\ snapPc = "metaWait"
    /\ granted(locks["metadata"], Request(SnapshotTask, "read"))
    /\ snapshot' = [snapshot EXCEPT !.metadata = metadata]
    /\ snapPc' = "write"
    /\ locks' = [locks EXCEPT
                   !["metadata"] = release(grant(@, Request(SnapshotTask, "read")),
                                           Request(SnapshotTask, "read")),
                   !["data"] = release(@, Request(SnapshotTask, "read"))]
    /\ UNCHANGED <<storeVars, engVars, swVars, envVars, connVars, origin, effect,
                   sentCmds, codecVars, temp_file, aof_file, aofPc, aof_rx,
                   stderr, faults, snaps, boots, loaded>>

\* handle_connection: a SET, which takes no lock
LockClientSet(c) ==
    /\ sentCmds < MaxLockCmds
    /\ \E chunk \in LockSetWire : ReadAndParse(c, chunk)
    /\ sentCmds' = sentCmds + 1
    /\ UNCHANGED <<codecVars, persistVars>>

\* handle_connection: a GET was read and parsed, and Store::get polls
\* data.read()
LockClientGetStart(c) ==
    /\ mainPc = "serve"
    /\ connPc[c] = "read"
    /\ sentCmds < MaxLockCmds
    /\ \E chunk \in LockGetWire :
       \E r \in {parse_resp(buffer[c] \o chunk)} :
          /\ buffer' = [buffer EXCEPT ![c] = @ \o chunk]
          /\ loc' = [loc EXCEPT ![c] =
                       [k |-> "get", frame |-> r.value, rest |-> r.rest]]
    /\ connPc' = [connPc EXCEPT ![c] = "dataWait"]
    /\ sentCmds' = sentCmds + 1
    /\ locks' = [locks EXCEPT !["data"] =
                   acquire(@, Request(HandlerTask(c), "read"))]
    /\ UNCHANGED <<storeVars, engVars, swVars, envVars, authenticated,
                   hist, origin, effect, codecVars, snapPc, snapshot, temp_file,
                   aof_file, aofPc, aof_rx, stderr, faults, snaps, boots,
                   loaded>>

\* handle_connection: Store::get under the data read guard, and the reply
LockClientGet(c) ==
    /\ connPc[c] = "dataWait"
    /\ granted(locks["data"], Request(HandlerTask(c), "read"))
    /\ \E plan \in {process_command(loc[c].frame, data, authenticated[c], password)} :
          Respond(c, loc[c].frame, loc[c].rest, plan.reply)
    /\ UNCHANGED <<storeVars, authenticated, origin>>
    /\ locks' = [locks EXCEPT
                   !["data"] = release(grant(@, Request(HandlerTask(c), "read")),
                                       Request(HandlerTask(c), "read"))]
    /\ UNCHANGED <<engVars, swVars, envVars, effect, sentCmds, codecVars,
                   snapPc, snapshot, temp_file, aof_file, aofPc, aof_rx, stderr,
                   faults, snaps, boots, loaded>>

NextLocks ==
    \/ LoadFromDisk
    \/ LockEngineRecv
    \/ LockEngineData
    \/ LockEngineMeta
    \/ LockSweepStart
    \/ LockSweepScan
    \/ LockSweepData
    \/ LockSweepRemove
    \/ LockSnapStart
    \/ LockSnapData
    \/ LockSnapMeta
    \/ SnapWrite
    \/ SnapRename
    \/ Tick
    \/ \E c \in Conns : LockClientSet(c)
    \/ \E c \in Conns : LockClientGetStart(c)
    \/ \E c \in Conns : LockClientGet(c)

\* the runtime polls every task that can run: a task whose next step is
\* possible takes it in the end. The clients, the clock and the two timers
\* owe nothing.
FairLocks ==
    /\ WF_vars(LoadFromDisk)
    /\ WF_vars(LockEngineRecv)
    /\ WF_vars(LockEngineData)
    /\ WF_vars(LockEngineMeta)
    /\ WF_vars(LockSweepScan)
    /\ WF_vars(LockSweepData)
    /\ WF_vars(LockSweepRemove)
    /\ WF_vars(LockSnapData)
    /\ WF_vars(LockSnapMeta)
    /\ WF_vars(SnapWrite)
    /\ WF_vars(SnapRename)
    /\ \A c \in Conns : WF_vars(LockClientGet(c))

SpecLocks == InitSet /\ [][NextLocks]_vars /\ FairLocks

\* the task polled read or write on some lock and was not handed the guard
Waits(task) == \E l \in Locks : \E req \in Waiting(l) : req.task = task

\* every task that waits for a lock gets it
LockRequestsGranted ==
    \A task \in Tasks : Waits(task) ~> ~Waits(task)

\* the i-th command of the channel went through process_commands, to the
\* end of its match arm
Applied(i) == cmd_rx > i \/ (cmd_rx = i /\ engPc = "recv")

\* every command published is applied
EventsApplied ==
    \A i \in 1..MaxLockCmds : (Len(cmd_tx) >= i) ~> Applied(i)

\* C25: the lock discipline is free of deadlock: under fair scheduling every
\* lock request is granted in the end, and every command published on a
\* channel that did not overflow is applied by process_commands in the end.
C25_LocksGrantedEventsApplied ==
    LockRequestsGranted /\ EventsApplied

=========================================================================
